---- MODULE Spec2Model ----
(***************************************************************************)
(* A model of the playback / packet-dispatch engine (src/src/TrackPlayer.ts) *)
(* and of the voice session state machine (src/src/VoiceConnection.ts).      *)
(*                                                                           *)
(* The program state is held in a few record-valued variables; every method  *)
(* of the source is an operator from a "world" (the record of all variables) *)
(* to the world after the call, so that a handler and every call it makes    *)
(* form one action.                                                          *)
(***************************************************************************)
EXTENDS Integers, Sequences, FiniteSets, TLC

VARIABLES
    tp,     \* the TrackPlayer's fields
    eng,    \* the decode engine instance this.player refers to (id 0: undefined)
    vc,     \* the VoiceConnection sessions: fields, connectionData, guild registry
    trk,    \* the tracks: cached stream collection and resolved stream URLs
    tasks,  \* the pending start() / load_streams() continuations
    bufs,   \* the module-level scratch buffers
    obs,    \* observations: events emitted, datagrams handed to transports, last operation
    sel     \* stream selection: the collection handed to get_best_stream and its result

vars == <<tp, eng, vc, trk, tasks, bufs, obs, sel>>

(***************************************************************************)
(* Bounds of the model                                                       *)
(***************************************************************************)
MaxStreams == 2          \* longest stream collection handed to get_best_stream

(***************************************************************************)
(* Stream selection (TrackPlayer.get_best_stream_one / get_best_stream)      *)
(*                                                                           *)
(* A stream is a record; `id' is its position in the collection (its object  *)
(* identity), 0 stands for null.  An optional property is a sequence: <<>>   *)
(* is undefined, <<v>> is the value v.  `codecs' is the property the         *)
(* repository's TrackStream carries (setMetadata(container, codecs));        *)
(* `codec' is the property as the collaborator contract names it.            *)
(***************************************************************************)
Nullish0(b) == IF b = <<>> THEN 0 ELSE b[1]      \* (b ?? 0)

\* streams.filter(pred) on a sequence, keeping the order
FilterSeq(s, Keep(_)) == SelectSeq(s, Keep)

\* one step of a stable insertion: x goes after every element that does not
\* compare greater than it under (a, b) => (b.bitrate ?? 0) - (a.bitrate ?? 0)
RECURSIVE InsertBeforeEqual(_, _)
RECURSIVE InsertStable(_, _)
InsertBeforeEqual(x, sorted) ==
    IF sorted = <<>> THEN <<x>>
    ELSE IF Nullish0(x.bitrate) - Nullish0(Head(sorted).bitrate) >= 0
         THEN <<x>> \o sorted
         ELSE <<Head(sorted)>> \o InsertBeforeEqual(x, Tail(sorted))

InsertStable(x, sorted) ==
    IF sorted = <<>> THEN <<x>>
    ELSE IF Nullish0(x.bitrate) - Nullish0(Head(sorted).bitrate) > 0
         THEN <<x>> \o sorted
         ELSE <<Head(sorted)>> \o InsertStable(x, Tail(sorted))

\* candidates.sort((a, b) => (b.bitrate ?? 0) - (a.bitrate ?? 0)); Array.prototype.sort is stable
RECURSIVE SortByBitrateDesc(_)
SortByBitrateDesc(s) ==
    IF s = <<>> THEN <<>>
    ELSE InsertStable(s[Len(s)], SortByBitrateDesc(SubSeq(s, 1, Len(s) - 1)))

WithIds(shapes) == [i \in 1..Len(shapes) |->
    [id |-> i, video |-> shapes[i].video, audio |-> shapes[i].audio,
     default_audio_track |-> shapes[i].default_audio_track,
     codecs |-> shapes[i].codecs, codec |-> shapes[i].codec,
     bitrate |-> shapes[i].bitrate]]

IsVideo(st) == st.video
IsOpus(st) == ~st.video /\ st.codecs = <<"opus">>
IsOtherAudio(st) == ~st.video /\ st.codecs # <<"opus">>

get_best_stream_one_bitrate_only(streams) ==
    IF streams = <<>> THEN 0 ELSE SortByBitrateDesc(streams)[1].id

get_best_stream_one(streams) ==
    IF streams = <<>> THEN 0
    ELSE LET opus  == FilterSeq(streams, IsOpus)
             audio == FilterSeq(streams, IsOtherAudio)
             other == FilterSeq(streams, IsVideo)
             candidates == IF opus # <<>> THEN opus
                           ELSE IF audio # <<>> THEN audio ELSE other
         IN  IF candidates = <<>> THEN 0
             ELSE SortByBitrateDesc(candidates)[1].id

IsAudio(st) == st.audio
IsDefaultAudio(st) == st.default_audio_track

get_best_stream_no_audio_filter(streams) ==
    LET result == get_best_stream_one(FilterSeq(streams, IsDefaultAudio))
    IN  IF result = 0 THEN get_best_stream_one(streams) ELSE result

get_best_stream_no_preference(streams) ==
    get_best_stream_one(FilterSeq(streams, IsAudio))

get_best_stream(streams) ==
    LET audioStreams == FilterSeq(streams, IsAudio)
        result == get_best_stream_one(FilterSeq(audioStreams, IsDefaultAudio))
    IN  IF result = 0 THEN get_best_stream_one(audioStreams) ELSE result

(***************************************************************************)
(* Numbers.  A JavaScript number holds every integer used here exactly; the  *)
(* 32-bit counters (timestamp, nonce, play_id, ssrc) are kept as a pair      *)
(* <<hi, lo>> of 16-bit halves, value hi * 65536 + lo, so that the compare   *)
(* against 4294967295 and the big-endian byte writes keep their true width.  *)
(***************************************************************************)
SEQUENCE_MAX == 65535                      \* if (connectionData.sequence > 65535)
Half == SEQUENCE_MAX + 1
U32_MAX == <<SEQUENCE_MAX, SEQUENCE_MAX>>  \* 4294967295
U32_ZERO == <<0, 0>>

\* u + f as an unbounded number <<carry, hi, lo>>
AddJS(u, f) ==
    LET lo == u[2] + f
        hi == u[1] + (lo \div Half)
    IN  <<hi \div Half, hi % Half, lo % Half>>

\* x > 4294967295
Exceeds32(x) == x[1] > 0

\* v += f; if (v > 4294967295) { v = 0 }
add_wrap_mod(u, f) == LET x == AddJS(u, f) IN <<x[2], x[3]>>
add_wrap(u, f) ==
    LET x == AddJS(u, f) IN IF Exceeds32(x) THEN U32_ZERO ELSE <<x[2], x[3]>>

\* sequence++; if (sequence > 65535) { sequence = 0 }
next_sequence_no_wrap(q) == q + 1
next_sequence(q) == IF q + 1 > SEQUENCE_MAX THEN 0 ELSE q + 1

\* Buffer.writeUInt16BE / writeUInt32BE: the bytes written
BytesBE16(v) == <<v \div 256, v % 256>>
BytesBE32(u) == BytesBE16(u[1]) \o BytesBE16(u[2])

\* buf with bytes written at offset off (0-based)
WriteAt(buf, off, bytes) ==
    [i \in 1..Len(buf) |->
        IF i > off /\ i <= off + Len(bytes) THEN bytes[i - off] ELSE buf[i]]

Zeros(n) == [i \in 1..n |-> 0]

(***************************************************************************)
(* Program constants                                                         *)
(***************************************************************************)
EncryptionMode == [NONE |-> 0, LITE |-> 1, SUFFIX |-> 2, DEFAULT |-> 3]
SILENCE == <<248, 255, 254>>               \* Buffer.from([0xf8, 0xff, 0xfe])
SILENCE_FRAME_SIZE == 960                  \* this.send(SILENCE, 960, true)
SILENCE_FRAMES == 5                        \* this.silence_frames_left = 5
HEADER_LENGTH == 12                        \* let len = 12 /* header length */
MAC_LENGTH == 16                           \* crypto_secretbox_easy: message length + 16
NONCE_LENGTH == 24                         \* Buffer.alloc(24)
CONNECT_TIMEOUT == 15000                   \* setTimeout(..., 15000)

Sessions == {1, 2}
Status == [Signalling |-> "signalling", Connecting |-> "connecting", Ready |-> "ready",
           Disconnected |-> "disconnected", Destroyed |-> "destroyed"]
Reason == [WebSocketClose |-> "WebSocketClose", AdapterUnavailable |-> "AdapterUnavailable",
           EndpointRemoved |-> "EndpointRemoved", Manual |-> "Manual", None |-> "none"]

\* the negotiated mode strings a session may carry
ModeStrings == {"xsalsa20_poly1305_lite", "xsalsa20_poly1305_suffix", "xsalsa20_poly1305"}

\* switch (connectionData.encryptionMode) { ... }
mode_of_unknown_is_lite(str) ==
    IF str = "xsalsa20_poly1305_suffix" THEN EncryptionMode.SUFFIX ELSE EncryptionMode.LITE

mode_of(str) ==
    CASE str = "xsalsa20_poly1305_lite" -> EncryptionMode.LITE
      [] str = "xsalsa20_poly1305_suffix" -> EncryptionMode.SUFFIX
      [] OTHER -> EncryptionMode.DEFAULT

(***************************************************************************)
(* The world: the record of all variables, threaded through the methods,     *)
(* plus `env', what the collaborators do during the call: whether a native  *)
(* call throws, and the bytes randombytes_buf draws.                         *)
RandomPool == {17, 201}
\* what the callers of connect() saw when the promise they await settled
NoOutcome == [callers |-> 0, promise |-> "none"]

NoFault == [get_box_throws |-> FALSE, update_box_throws |-> FALSE,
            set_box_throws |-> FALSE, create_fails |-> FALSE, rnd |-> 17]

WorldE(e) == [tp |-> tp, eng |-> eng, vc |-> vc, trk |-> trk, tasks |-> tasks,
              bufs |-> bufs, obs |-> [obs EXCEPT !.emitted = <<>>, !.sent_now = {}, !.thrown = "none",
                              !.returned = <<>>,
                              !.handed = [s \in Sessions |-> 0],
                              !.sess = [s \in DOMAIN obs.sess |->
                                           [obs.sess[s] EXCEPT !.op15 = 0, !.errors = <<>>,
                                                               !.observed = NoOutcome]]],
              env |-> e]
World == WorldE(NoFault)

Commit(w) ==
    /\ tp' = w.tp
    /\ eng' = w.eng
    /\ vc' = w.vc
    /\ trk' = w.trk
    /\ tasks' = w.tasks
    /\ bufs' = w.bufs
    /\ obs' = w.obs

\* the record of the operation an action performed, read by the properties
Did(w, label) ==
    [w EXCEPT !.obs.last = IF label.op \in w.obs.trace THEN label ELSE w.obs.idle]

\* seq: the sequence number the datagram carries (-1: none);
\* after: the one carried by the datagram the transport was handed before it
NoDatagram == [kind |-> "none", hdr |-> <<>>, payload |-> <<>>, nonce |-> <<>>,
               suffix |-> <<>>, len |-> 0, silence |-> FALSE, seq |-> -1, after |-> -1]

(***************************************************************************)
(* TrackPlayer.send                                                          *)
(***************************************************************************)
\* the 12 header bytes after the three writes at offsets 2, 4 and 8
write_header_at_zero(buf, sequence, timestamp, ssrc) ==
    WriteAt(WriteAt(WriteAt(buf, 0, BytesBE16(sequence)), 4, BytesBE32(timestamp)),
            8, BytesBE32(ssrc))

\* the three writes with the sequence the session held before its increment
write_header_before_increment(buf, sequence, timestamp, ssrc) ==
    WriteAt(WriteAt(WriteAt(buf, 2, BytesBE16((sequence + SEQUENCE_MAX) % (SEQUENCE_MAX + 1))),
                    4, BytesBE32(timestamp)),
            8, BytesBE32(ssrc))

write_header(buf, sequence, timestamp, ssrc) ==
    WriteAt(WriteAt(WriteAt(buf, 2, BytesBE16(sequence)), 4, BytesBE32(timestamp)),
            8, BytesBE32(ssrc))

\* CONNECTION_NONCE.writeUInt32BE(connectionData.nonce, 0)
write_nonce(buf, nonce) == WriteAt(buf, 0, BytesBE32(nonce))

\* AUDIO_BUFFER.set(CONNECTION_NONCE.subarray(0, 4), len): the bytes appended
lite_suffix_stale(nonce_buf, hdr) == SubSeq(hdr, 5, 8)
lite_suffix_whole(nonce_buf, hdr) == nonce_buf

lite_suffix(nonce_buf, hdr) == SubSeq(nonce_buf, 1, 4)

\* udp.send(packet) on session c
udp_send(w, c, dgram) ==
    [w EXCEPT !.obs.udp[c] = [dgram EXCEPT !.after = w.obs.udp[c].seq],
              !.obs.sent_now = @ \cup {c},
              !.obs.handed[c] = @ + 1]

send_one_no_gate(w, c, payload, frameSize, isSilence) ==
    udp_send([w EXCEPT !.vc[c].speaking = TRUE,
                       !.vc[c].cd.sequence = next_sequence(@),
                       !.vc[c].cd.timestamp = add_wrap(@, frameSize)],
             c, [kind |-> "rtp", hdr |-> <<>>, payload |-> payload, nonce |-> <<>>,
                 suffix |-> <<>>, len |-> HEADER_LENGTH + Len(payload) + MAC_LENGTH,
                 silence |-> isSilence, seq |-> next_sequence(w.vc[c].cd.sequence),
                 after |-> -1])

\* the forwarded packet counted in the session as a built one is
send_one_counting(w, c, payload, frameSize, isSilence) ==
    IF w.vc[c].status # Status.Ready THEN w
    ELSE IF w.tp.external_encrypt /\ ~isSilence
         THEN udp_send([w EXCEPT !.vc[c].speaking = TRUE,
                                 !.vc[c].cd.sequence = next_sequence(@),
                                 !.vc[c].cd.timestamp = add_wrap(@, frameSize)],
                       c, [kind |-> "raw", hdr |-> <<>>, payload |-> payload, nonce |-> <<>>,
                           suffix |-> <<>>, len |-> Len(payload), silence |-> FALSE,
                           seq |-> -1, after |-> -1])
         ELSE send_one_no_gate(w, c, payload, frameSize, isSilence)

\* the body of the for loop of send() for one subscribed connection c
send_one(w, c, payload, frameSize, isSilence) ==
    IF w.vc[c].status # Status.Ready THEN w
    ELSE
    LET w1 == [w EXCEPT !.vc[c].speaking = TRUE]
        cd == w.vc[c].cd
    IN  IF w.tp.external_encrypt /\ ~isSilence
        THEN udp_send(w1, c, [kind |-> "raw", hdr |-> <<>>, payload |-> payload,
                              nonce |-> <<>>, suffix |-> <<>>, len |-> Len(payload),
                              silence |-> FALSE,
                              seq |-> IF w.eng.box.mode = EncryptionMode.NONE THEN -1
                                      ELSE w.eng.box.sequence,
                              after |-> -1])
        ELSE
        LET mode == IF cd.encryption_mode = 0 THEN mode_of(cd.encryptionMode)
                    ELSE cd.encryption_mode
            sequence == next_sequence(cd.sequence)
            timestamp == add_wrap(cd.timestamp, frameSize)
            hdr == write_header(w.bufs.AUDIO_BUFFER, sequence, timestamp, cd.ssrc)
            nonce == IF mode = EncryptionMode.LITE THEN add_wrap(cd.nonce, 1) ELSE cd.nonce
            CONN_NONCE == IF mode = EncryptionMode.LITE
                          THEN write_nonce(w.bufs.CONNECTION_NONCE, nonce)
                          ELSE w.bufs.CONNECTION_NONCE
            RANDOM == IF mode = EncryptionMode.SUFFIX
                      THEN [i \in 1..NONCE_LENGTH |-> w.env.rnd] ELSE w.bufs.RANDOM_BYTES
            A_NONCE == IF mode = EncryptionMode.DEFAULT
                       THEN WriteAt(w.bufs.AUDIO_NONCE, 0, hdr) ELSE w.bufs.AUDIO_NONCE
            used == CASE mode = EncryptionMode.LITE -> CONN_NONCE
                      [] mode = EncryptionMode.SUFFIX -> RANDOM
                      [] OTHER -> A_NONCE
            suffix == CASE mode = EncryptionMode.LITE -> lite_suffix(CONN_NONCE, hdr)
                        [] mode = EncryptionMode.SUFFIX -> RANDOM
                        [] OTHER -> <<>>
            len == HEADER_LENGTH + (Len(payload) + MAC_LENGTH) + Len(suffix)
            w2 == [w1 EXCEPT !.vc[c].cd.encryption_mode = mode,
                             !.vc[c].cd.sequence = sequence,
                             !.vc[c].cd.timestamp = timestamp,
                             !.vc[c].cd.nonce = nonce,
                             !.bufs.AUDIO_BUFFER = hdr,
                             !.bufs.CONNECTION_NONCE = CONN_NONCE,
                             !.bufs.RANDOM_BYTES = RANDOM,
                             !.bufs.AUDIO_NONCE = A_NONCE]
        IN  udp_send(w2, c, [kind |-> "rtp", hdr |-> hdr, payload |-> payload,
                             nonce |-> used, suffix |-> suffix, len |-> len,
                             silence |-> isSilence, seq |-> sequence, after |-> -1])

RECURSIVE send_loop(_, _, _, _, _)
send_loop(w, subs, payload, frameSize, isSilence) ==
    IF subs = <<>> THEN w
    ELSE send_loop(send_one(w, Head(subs), payload, frameSize, isSilence),
                   Tail(subs), payload, frameSize, isSilence)

send(w, payload, frameSize, isSilence) ==
    send_loop(w, w.tp.subscriptions, payload, frameSize, isSilence)

(***************************************************************************)
(* The decode engine (sange AudioPlayer) as the Player uses it               *)
(***************************************************************************)
NoBox == [mode |-> EncryptionMode.NONE, ssrc |-> U32_ZERO, sequence |-> 0,
          timestamp |-> U32_ZERO, nonce |-> U32_ZERO]
NoSettings == [volume |-> 1, bitrate |-> 0, rate |-> 1, tempo |-> 1,
               tremolo |-> <<0, 0>>, equalizer |-> <<>>]

NoEngine == [id |-> 0, paused |-> FALSE, seek |-> 0, url |-> "none", setURL_calls |-> 0,
             start_calls |-> 0, finished |-> FALSE, box |-> NoBox, pipe |-> 0,
             settings |-> NoSettings]

\* this.emit(event, ...) on the Player
emit(w, event) == [w EXCEPT !.obs.emitted = Append(@, event)]
emit_error(w, kind) == emit(w, <<"error", kind>>)

NoKeepalive == [by |-> "none", sent |-> 0]

\* this.subscriptions.length > 0 && this.subscriptions[0].connection.state.status === Ready
secretbox_ready(w) ==
    /\ Len(w.tp.subscriptions) > 0
    /\ w.vc[w.tp.subscriptions[1]].status = Status.Ready

(***************************************************************************)
(* TrackPlayer.start_silence_frames / stop_silence_frames / interval callback *)
(***************************************************************************)

\* the countdown armed although getSecretBox() threw
start_silence_frames_arm_on_failure(w) ==
    IF ~w.tp.silence_frames_needed \/ w.tp.silence_frames_interval THEN w
    ELSE
    LET w1 == [w EXCEPT !.tp.silence_frames_needed = FALSE]
        c == w.tp.subscriptions[1]
        arm(x) == [x EXCEPT !.tp.silence_frames_interval = TRUE,
                            !.obs.ka = [by |-> "other", sent |-> 0]]
    IN  IF w.tp.player # 0 /\ w.tp.external_encrypt /\ secretbox_ready(w)
        THEN IF w.env.get_box_throws THEN arm(w1)
             ELSE arm([w1 EXCEPT !.vc[c].cd.nonce = w.eng.box.nonce,
                                 !.vc[c].cd.timestamp = w.eng.box.timestamp,
                                 !.vc[c].cd.sequence = w.eng.box.sequence])
        ELSE arm(w1)

start_silence_frames(w) ==
    IF ~w.tp.silence_frames_needed \/ w.tp.silence_frames_interval THEN w
    ELSE
    LET w1 == [w EXCEPT !.tp.silence_frames_needed = FALSE]
        c == w.tp.subscriptions[1]
        arm(x) == [x EXCEPT !.tp.silence_frames_interval = TRUE,
                            !.obs.ka = [by |-> "other", sent |-> 0]]
    IN  IF w.tp.player # 0 /\ w.tp.external_encrypt /\ secretbox_ready(w)
        THEN IF w.env.get_box_throws THEN w1
             ELSE arm([w1 EXCEPT !.vc[c].cd.nonce = w.eng.box.nonce,
                                 !.vc[c].cd.timestamp = w.eng.box.timestamp,
                                 !.vc[c].cd.sequence = w.eng.box.sequence])
        ELSE arm(w1)

stop_silence_frames_keep_timer(w) ==
    IF w.tp.silence_frames_needed THEN w
    ELSE [w EXCEPT !.tp.silence_frames_needed = TRUE,
                   !.tp.silence_frames_left = SILENCE_FRAMES]

\* the flags reset, the countdown left where the last one ended
stop_silence_frames_no_reset(w) ==
    IF w.tp.silence_frames_needed THEN w
    ELSE [w EXCEPT !.tp.silence_frames_interval = FALSE,
                   !.tp.silence_frames_needed = TRUE,
                   !.obs.ka = NoKeepalive]

stop_silence_frames(w) ==
    IF w.tp.silence_frames_needed THEN w
    ELSE [w EXCEPT !.tp.silence_frames_interval = FALSE,
                   !.tp.silence_frames_needed = TRUE,
                   !.tp.silence_frames_left = SILENCE_FRAMES,
                   !.obs.ka = NoKeepalive]

\* if (!this.silence_frames_left) { clearInterval(...) }
silence_countdown_over_never(left) == FALSE
silence_countdown_over(left) == left = 0

\* the callback of setInterval(..., 20)
silence_tick(w) ==
    LET w1 == [w EXCEPT !.tp.silence_frames_left = @ - 1]
        w2 == send(w1, SILENCE, SILENCE_FRAME_SIZE, TRUE)
        w3 == [w2 EXCEPT !.obs.ka.sent = @ + 1,
                         !.obs.fin.sent = IF w.obs.fin.active THEN @ + 1 ELSE @]
        c == w.tp.subscriptions[1]
        finish(x) == IF silence_countdown_over(x.tp.silence_frames_left)
                     THEN [x EXCEPT !.tp.silence_frames_interval = FALSE]
                     ELSE x
    IN  IF w3.tp.player # 0 /\ w3.tp.external_encrypt /\ secretbox_ready(w3)
        THEN IF w.env.update_box_throws
             THEN [w3 EXCEPT !.tp.silence_frames_interval = FALSE,
                             !.obs.ka.by = "aborted"]
             ELSE finish([w3 EXCEPT !.eng.box.sequence = w3.vc[c].cd.sequence,
                                    !.eng.box.timestamp = w3.vc[c].cd.timestamp,
                                    !.eng.box.nonce = w3.vc[c].cd.nonce])
        ELSE finish(w3)

(***************************************************************************)
(* TrackPlayer.destroy_player / cleanup / init_secretbox / create_player      *)
(***************************************************************************)
destroy_player(w) ==
    IF w.tp.player = 0 THEN w
    ELSE LET w1 == start_silence_frames(w)
         IN  [w1 EXCEPT !.tp.player = 0, !.eng = NoEngine,
                        !.obs.live = @ \ {w.tp.player}]

cleanup(w) == destroy_player(w)

init_secretbox(w) ==
    IF ~w.tp.external_encrypt \/ w.tp.player = 0 THEN w
    ELSE IF secretbox_ready(w)
    THEN LET c == w.tp.subscriptions[1]
             cd == w.vc[c].cd
         IN  IF w.env.set_box_throws
             THEN emit_error(cleanup(w), "GenericError")
             ELSE [w EXCEPT !.eng.box = [mode |-> mode_of(cd.encryptionMode),
                                         ssrc |-> cd.ssrc, sequence |-> cd.sequence,
                                         timestamp |-> cd.timestamp, nonce |-> cd.nonce],
                            !.eng.pipe = IF w.tp.external_packet_send THEN c ELSE @]
    ELSE LET w1 == IF w.env.set_box_throws
                   THEN emit_error(cleanup(w), "GenericError")
                   ELSE [w EXCEPT !.eng.box = NoBox]
         IN  IF w1.tp.external_packet_send /\ w1.tp.player # 0
             THEN [w1 EXCEPT !.eng.pipe = 0]
             ELSE w1

create_player_no_destroy(w, startTime) ==
    LET id == w.obs.engines + 1
    IN  IF w.env.create_fails THEN emit_error(w, "GenericError")
        ELSE init_secretbox([w EXCEPT !.tp.player = id,
                                      !.eng = [NoEngine EXCEPT !.id = id, !.seek = startTime],
                                      !.obs.engines = id,
                                      !.obs.live = @ \cup {id}])

create_player(w, startTime) ==
    LET w1 == destroy_player(w)
        id == w1.obs.engines + 1
    IN  IF w.env.create_fails THEN emit_error(w1, "GenericError")
        ELSE init_secretbox([w1 EXCEPT !.tp.player = id,
                                       !.eng = [NoEngine EXCEPT !.id = id, !.seek = startTime],
                                       !.obs.engines = id,
                                       !.obs.live = @ \cup {id}])

(***************************************************************************)
(* TrackPlayer.onstatechange: the listener of a session's 'stateChange'      *)
(***************************************************************************)
\* the listener without its Ready branch
onstatechange_pipe_only(w, cur_status) ==
    IF cur_status # Status.Ready /\ w.tp.external_encrypt /\ w.tp.external_packet_send
         /\ w.tp.player # 0
    THEN [w EXCEPT !.eng.pipe = 0]
    ELSE w

\* the listener without its non-Ready branch
onstatechange_ready_only(w, cur_status) ==
    IF cur_status = Status.Ready THEN init_secretbox(w) ELSE w

onstatechange(w, cur_status) ==
    IF cur_status = Status.Ready THEN init_secretbox(w)
    ELSE IF w.tp.external_encrypt /\ w.tp.external_packet_send /\ w.tp.player # 0
         THEN [w EXCEPT !.eng.pipe = 0]
         ELSE w

(***************************************************************************)
(* VoiceConnection (src/src/VoiceConnection.ts).  The base class of          *)
(* @discordjs/voice is a collaborator: its state setter stores the state and *)
(* emits 'stateChange'; its disconnect() releases the transport and assigns  *)
(* a Disconnected state.                                                     *)
(***************************************************************************)
Min(a, b) == IF a < b THEN a ELSE b

\* this.promise_reject(error) / this.promise_resolve(): a settled promise stays as it is
promise_reject(w, s, error) ==
    IF w.vc[s].promise = "pending"
    THEN [w EXCEPT !.vc[s].promise = "rejected", !.vc[s].promise_error = error]
    ELSE w

promise_resolve(w, s) ==
    IF w.vc[s].promise = "pending" THEN [w EXCEPT !.vc[s].promise = "resolved"] ELSE w

\* VoiceConnection.disconnect_reason(reason): the message of the rejection
disconnect_reason(reason) ==
    CASE reason = Reason.AdapterUnavailable -> "Adapter unavailable"
      [] reason = Reason.EndpointRemoved -> "Endpoint removed"
      [] reason = Reason.WebSocketClose -> "WebSocket closed"
      [] reason = Reason.Manual -> "Manual disconnect"
      [] OTHER -> "undefined"

handle_state_change_ignore_close(w, s, st, reason) ==
    CASE st = Status.Destroyed -> promise_reject(w, s, "Connection destroyed")
      [] st = Status.Disconnected /\ reason # Reason.WebSocketClose ->
            promise_reject(w, s, disconnect_reason(reason))
      [] st = Status.Ready ->
            [promise_resolve(w, s) EXCEPT !.obs.sess[s].op15 = Min(@ + 1, 2)]
      [] OTHER -> w

handle_state_change(w, s, st, reason) ==
    CASE st = Status.Destroyed -> promise_reject(w, s, "Connection destroyed")
      [] st = Status.Disconnected -> promise_reject(w, s, disconnect_reason(reason))
      [] st = Status.Ready ->
            [promise_resolve(w, s) EXCEPT !.obs.sess[s].op15 = Min(@ + 1, 2)]
      [] OTHER -> w

\* super.state = state: the base setter stores the state and emits 'stateChange'
base_set_state(w, s, st, reason) ==
    LET w1 == [w EXCEPT !.vc[s].status = st, !.vc[s].reason = reason,
                        !.obs.sess[s].was_destroyed = @ \/ st = Status.Destroyed]
    IN  IF w1.vc[s].listeners > 0 THEN onstatechange(w1, st) ELSE w1

\* this.timeout = setTimeout(..., 15000)
connect_timeout_short == CONNECT_TIMEOUT \div 3
connect_timeout == CONNECT_TIMEOUT

await_connection_no_share(w, s) ==
    IF w.vc[s].status = Status.Ready THEN w
    ELSE [w EXCEPT !.vc[s].promise = "pending",
                   !.vc[s].promise_error = "none",
                   !.vc[s].timeout = TRUE,
                   !.vc[s].timers = Min(@ + 1, 2),
                   !.vc[s].timer_left = connect_timeout,
                   !.vc[s].waited = 0]

await_connection(w, s) ==
    IF w.vc[s].status = Status.Ready \/ w.vc[s].promise # "null" THEN w
    ELSE [w EXCEPT !.vc[s].promise = "pending",
                   !.vc[s].promise_error = "none",
                   !.vc[s].timeout = TRUE,
                   !.vc[s].timers = Min(@ + 1, 2),
                   !.vc[s].timer_left = connect_timeout,
                   !.vc[s].waited = 0]

RECURSIVE set_state(_, _, _, _)
RECURSIVE VoiceConnection_destroy(_, _, _)

\* override set state (state)
set_state(w, s, st, reason) ==
    LET w1 == IF st # w.vc[s].status
              THEN IF w.vc[s].promise # "null" THEN handle_state_change(w, s, st, reason)
                   ELSE IF st = Status.Disconnected
                        THEN IF reason = Reason.WebSocketClose THEN await_connection(w, s)
                             ELSE VoiceConnection_destroy(w, s,
                                      reason # Reason.AdapterUnavailable)
                        ELSE w
              ELSE w
    IN  base_set_state(w1, s, st, reason)

\* super.disconnect(), entered with _state.status forced to Disconnected
base_disconnect(w, s) ==
    set_state([w EXCEPT !.obs.sess[s].base_disconnects = Min(@ + 1, 2)],
              s, Status.Disconnected, Reason.Manual)

\* override destroy (adapterAvailable = true)
VoiceConnection_destroy(w, s, adapterAvailable) ==
    IF w.vc[s].status = Status.Destroyed THEN w
    ELSE
    LET w1 == IF adapterAvailable
              THEN LET a == [w EXCEPT !.vc[s].status = Status.Destroyed]
                       b == set_state(a, s, Status.Destroyed, Reason.None)
                       c == [b EXCEPT !.vc[s].status = Status.Disconnected]
                   IN  base_disconnect(c, s)
              ELSE w
        w2 == [w1 EXCEPT !.vc[s].registered = FALSE]
    IN  set_state(w2, s, Status.Destroyed, Reason.None)

\* override disconnect ()
VoiceConnection_disconnect(w, s) == VoiceConnection_destroy(w, s, TRUE)

\* override onNetworkingError (error)
onNetworkingError(w, s) ==
    IF w.vc[s].promise # "null" THEN promise_reject(w, s, "networking error")
    ELSE VoiceConnection_destroy(
             [w EXCEPT !.obs.sess[s].errors = Append(@, "networking error")], s, TRUE)

\* the callback of setTimeout(..., 15000)
connection_timeout(w, s) ==
    promise_reject([w EXCEPT !.vc[s].timeout = FALSE, !.vc[s].timers = @ - 1],
                   s, "Connection timed out")

\* await_connection after `await this.promise': try / catch / finally

await_connection_settled(w, s) ==
    LET err == w.vc[s].promise_error
        w1 == IF w.vc[s].promise = "resolved"
              THEN [w EXCEPT !.vc[s].connected = TRUE,
                             !.obs.sess[s].outcome = "resolved"]
              ELSE VoiceConnection_destroy(
                       [w EXCEPT !.obs.sess[s].errors =
                                      IF w.vc[s].connected THEN Append(@, err) ELSE @,
                                 !.obs.sess[s].outcome = err],
                       s, TRUE)
    IN  [w1 EXCEPT !.vc[s].timers = IF w1.vc[s].timeout THEN @ - 1 ELSE @,
                   !.vc[s].timeout = FALSE,
                   !.vc[s].promise = "null",
                   !.vc[s].promise_error = "none"]

ConnectionData(s, modeString, sequence, timestamp, nonce) ==
    [encryptionMode |-> modeString, encryption_mode |-> 0, sequence |-> sequence,
     timestamp |-> timestamp, nonce |-> nonce, ssrc |-> <<s, 1000 + s>>]

DefaultData(s) == ConnectionData(s, "xsalsa20_poly1305_lite", 0, U32_ZERO, U32_ZERO)

\* new VoiceConnection(channel, options): registered in the guild, the first
\* readiness wait started, status Signalling after the base rejoin()
SessionNew(s) ==
    [status |-> Status.Signalling, reason |-> Reason.None, promise |-> "pending",
     promise_error |-> "none", timeout |-> TRUE, timers |-> 1,
     timer_left |-> connect_timeout, waited |-> 0, connected |-> FALSE,
     registered |-> TRUE, listeners |-> 0, speaking |-> FALSE, cd |-> DefaultData(s)]

\* static async connect (channel, options), up to `await connection.promise':
\* the guild's connection is reused, or a new one is constructed in its place
connect(w, s) ==
    LET w1 == IF w.vc[s].registered THEN w
              ELSE [w EXCEPT !.vc[s] = SessionNew(s)]
    IN  IF w1.vc[s].status = Status.Ready THEN w1
        ELSE [await_connection(w1, s) EXCEPT !.obs.sess[s].callers = @ + 1]

\* connect() after `await connection.promise': every caller sees the promise's outcome
connect_settled(w, s, outcome) ==
    [w EXCEPT !.obs.sess[s].observed =
                  IF w.obs.sess[s].callers > 0
                  THEN [callers |-> w.obs.sess[s].callers, promise |-> outcome]
                  ELSE NoOutcome,
              !.obs.sess[s].callers = 0]

(***************************************************************************)
(* TrackPlayer.onpacket / onfinish: the decode engine's callbacks            *)
(***************************************************************************)
\* what the engine did to its own secret box when it encrypted the frame itself
engine_encrypted(w, frameSize) ==
    IF ~w.tp.external_encrypt \/ w.eng.box.mode = EncryptionMode.NONE THEN w
    ELSE [w EXCEPT !.eng.box.sequence = (@ + 1) % Half,
                   !.eng.box.timestamp = add_wrap_mod(@, frameSize),
                   !.eng.box.nonce = IF w.eng.box.mode = EncryptionMode.LITE
                                     THEN add_wrap_mod(@, 1) ELSE @]

onpacket(w, payload, frameSize) ==
    LET w0 == engine_encrypted(w, frameSize)
        w1 == IF ~w0.eng.paused THEN stop_silence_frames(w0) ELSE w0
        w2 == IF ~w1.tp.external_packet_send THEN send(w1, payload, frameSize, FALSE) ELSE w1
    IN  emit([w2 EXCEPT !.obs.fin = [active |-> FALSE, sent |-> 0]], <<"packet">>)

onfinish(w) ==
    LET w1 == start_silence_frames(emit(w, <<"finish">>))
        armed == w1.tp.silence_frames_interval /\ ~w.tp.silence_frames_interval
    IN  [w1 EXCEPT !.obs.fin = [active |-> TRUE, sent |-> 0],
                   !.obs.ka.by = IF armed THEN "finish" ELSE @]

(***************************************************************************)
(* TrackPlayer.subscribe / unsubscribe / unsubscribe_all / destroy            *)
(***************************************************************************)
Range(f) == {f[i] : i \in DOMAIN f}

subscribe_push_first(w, c) ==
    LET w1 == [w EXCEPT !.tp.subscriptions = Append(@, c)]
    IN  IF w.tp.external_encrypt /\ Len(w.tp.subscriptions) > 0
        THEN [w1 EXCEPT !.obs.thrown = "UnsupportedError"]
        ELSE init_secretbox(w1)

subscribe(w, c) ==
    IF w.tp.external_encrypt /\ Len(w.tp.subscriptions) > 0
    THEN [w EXCEPT !.obs.thrown = "UnsupportedError"]
    ELSE LET w1 == IF w.tp.external_encrypt
                   THEN [w EXCEPT !.vc[c].listeners = @ + 1] ELSE w
             w2 == [w1 EXCEPT !.tp.subscriptions = Append(@, c)]
         IN  init_secretbox(w2)

RECURSIVE TrackPlayer_destroy(_)
RECURSIVE unsubscribe(_, _)
RECURSIVE unsubscribe_each(_, _)

\* this.subscriptions.indexOf(subscription) and splice(index, 1)
IndexOf(seq, c) ==
    IF c \in Range(seq)
    THEN CHOOSE i \in DOMAIN seq : seq[i] = c /\ \A j \in 1..(i - 1) : seq[j] # c
    ELSE 0
Splice(seq, i) == SubSeq(seq, 1, i - 1) \o SubSeq(seq, i + 1, Len(seq))

unsubscribe_every_binding(w, c) ==
    IF c \notin Range(w.tp.subscriptions) THEN w
    ELSE LET w1 == IF w.tp.external_encrypt
                   THEN [w EXCEPT !.vc[c].listeners = IF @ > 0 THEN @ - 1 ELSE @]
                   ELSE w
             IsOther(x) == x # c
             w2 == [w1 EXCEPT !.tp.subscriptions = SelectSeq(@, IsOther)]
         IN  IF w2.tp.subscriptions = <<>> THEN TrackPlayer_destroy(w2) ELSE w2

unsubscribe(w, c) ==
    LET index == IndexOf(w.tp.subscriptions, c)
    IN  IF index = 0 THEN w
        ELSE LET w1 == IF w.tp.external_encrypt
                       THEN [w EXCEPT !.vc[c].listeners = IF @ > 0 THEN @ - 1 ELSE @]
                       ELSE w
                 w2 == [w1 EXCEPT !.tp.subscriptions = Splice(@, index)]
             IN  IF w2.tp.subscriptions = <<>> THEN TrackPlayer_destroy(w2) ELSE w2

unsubscribe_each(w, copy) ==
    IF copy = <<>> THEN w
    ELSE unsubscribe_each(unsubscribe(w, Head(copy)), Tail(copy))

unsubscribe_all(w) == unsubscribe_each(w, w.tp.subscriptions)

TrackPlayer_destroy_no_clear(w) ==
    destroy_player(
        [w EXCEPT !.vc = [c \in Sessions |->
                             [w.vc[c] EXCEPT !.listeners =
                                 IF w.tp.external_encrypt /\ c \in Range(w.tp.subscriptions)
                                 THEN 0 ELSE @]],
                  !.tp.subscriptions = <<>>])

TrackPlayer_destroy(w) ==
    LET w1 == destroy_player(unsubscribe_all(w))
    IN  [w1 EXCEPT !.tp.silence_frames_interval = FALSE,
                   !.obs.ka = NoKeepalive,
                   !.obs.fin = [active |-> FALSE, sent |-> 0]]

(***************************************************************************)
(* TrackPlayer.play / start / load_streams.  A call of start() is a task:    *)
(* pc is the await it is suspended at.                                       *)
(*   getStreams    await this.track.getStreams()                             *)
(*   getUrl        await this.stream.getUrl()                                *)
(*   loaded        await this.load_streams(), which returned true            *)
(*   engine_start  await this.player.start()                                 *)
(***************************************************************************)
Tracks == {"A", "B"}

\* the collection getStreams() of a track resolves to
TrackStreams(t) ==
    IF t = "A"
    THEN WithIds(<<[video |-> FALSE, audio |-> TRUE, default_audio_track |-> FALSE,
                    codecs |-> <<"opus">>, codec |-> <<>>, bitrate |-> <<96>>],
                   [video |-> FALSE, audio |-> TRUE, default_audio_track |-> FALSE,
                    codecs |-> <<"aac">>, codec |-> <<>>, bitrate |-> <<128>>]>>)
    ELSE WithIds(<<[video |-> TRUE, audio |-> TRUE, default_audio_track |-> FALSE,
                    codecs |-> <<"avc1">>, codec |-> <<>>, bitrate |-> <<720>>]>>)

StreamUndefined == [kind |-> "undefined", t |-> "none", id |-> 0]
StreamNull == [kind |-> "null", t |-> "none", id |-> 0]
StreamObject(t, id) == [kind |-> "obj", t |-> t, id |-> id]

DoneTask == [pc |-> "done", playId |-> U32_ZERO, track |-> "none", engine |-> 0]

task_at(w, k, pc) == [w EXCEPT !.tasks[k].pc = pc]
task_done(w, k) == [w EXCEPT !.tasks[k] = DoneTask]

\* load_streams from `this.stream = this.get_best_stream(streams)' to its next await
load_streams_select(w, k) ==
    LET t == w.tp.track
        id == get_best_stream(TrackStreams(t))
    IN  IF id = 0
        THEN task_done(emit_error([w EXCEPT !.tp.stream = StreamNull], "UnplayableError"), k)
        ELSE LET w1 == [w EXCEPT !.tp.stream = StreamObject(t, id)]
             IN  IF w.trk[t].url = "none" THEN task_at(w1, k, "getUrl")
                 ELSE task_at(w1, k, "loaded")

\* start() and load_streams() up to the first await
start(w) ==
    IF w.tp.player = 0 \/ w.tp.track = "none" THEN w
    ELSE LET k == Len(w.tasks) + 1
             w1 == [w EXCEPT !.tasks = Append(@, [pc |-> "start", playId |-> w.tp.play_id,
                                                 track |-> w.tp.track,
                                                 engine |-> w.tp.player])]
         IN  IF w.trk[w.tp.track].streams = "fresh" THEN load_streams_select(w1, k)
             ELSE task_at(w1, k, "getStreams")

\* this.play_id++; if (this.play_id > MAX_PLAY_ID) { this.play_id = 0 }
next_play_id_saturating(id) == IF id = U32_MAX THEN U32_MAX ELSE add_wrap_mod(id, 1)
next_play_id(id) == add_wrap(id, 1)

play(w, track) ==
    LET w1 == [w EXCEPT !.tp.play_id = next_play_id(@),
                        !.tp.last_error = 0,
                        !.tp.stream = StreamUndefined,
                        !.tp.track = track]
    IN  start(create_player(w1, 0))

\* load_streams resumed after `await this.track.getStreams()'
load_streams_got_streams(w, k, ok) ==
    LET playId == w.tasks[k].playId
    IN  IF ok
        THEN IF w.tp.play_id # playId THEN task_done(w, k)
             ELSE load_streams_select(
                      [w EXCEPT !.trk[w.tp.track].streams = "fresh",
                                !.trk[w.tp.track].url =
                                    IF w.trk[w.tp.track].eager THEN w.tp.track ELSE "none"],
                      k)
        ELSE IF w.tp.play_id = playId THEN task_done(emit_error(w, "Error"), k)
             ELSE task_done(w, k)

\* load_streams resumed after `await this.stream.getUrl()'
load_streams_got_url(w, k, ok) ==
    LET playId == w.tasks[k].playId
        caught(x) == LET x1 == IF x.tp.play_id = playId THEN emit_error(x, "Error") ELSE x
                     IN  task_done([x1 EXCEPT !.tp.stream = StreamNull], k)
    IN  IF ok
        THEN IF w.tp.stream.kind # "obj" THEN caught(w)
             ELSE LET w1 == [w EXCEPT !.trk[w.tp.stream.t].url = w.tasks[k].track]
                  IN  IF w1.tp.play_id # playId THEN task_done(w1, k)
                      ELSE task_at(w1, k, "loaded")
        ELSE caught(w)

\* start() resumed after `await this.load_streams()' returned true
start_loaded(w, k) ==
    IF w.tp.player = 0 \/ w.tp.stream.kind # "obj" THEN task_done(w, k)
    ELSE LET url == w.trk[w.tp.stream.t].url
         IN  IF url = "none" THEN task_done(emit_error(w, "GenericError"), k)
             ELSE task_at([w EXCEPT !.eng.url = url,
                                    !.eng.setURL_calls = @ + 1,
                                    !.eng.start_calls = @ + 1], k, "engine_start")

\* start() resumed after `await this.player.start()'
start_engine_started(w, k, ok) ==
    IF ok THEN task_done(w, k) ELSE task_done(emit_error(w, "GenericError"), k)

(***************************************************************************)
(* TrackPlayer.error / onerror: the decode engine reports a failure           *)
(***************************************************************************)
ERROR_INTERVAL == 300000

\* retryable === false || (Date.now() - this.last_error < ERROR_INTERVAL)
error_fatal_retryable_only(last_error, retryable, now) == retryable = "false"
error_fatal(last_error, retryable, now) ==
    retryable = "false" \/ now - last_error < ERROR_INTERVAL

\* error (error, retryable): the world it leaves; it returns error_fatal
error_keep_engine(w, retryable, now) ==
    IF error_fatal(w.tp.last_error, retryable, now)
    THEN emit_error(w, "InternalError")
    ELSE [w EXCEPT !.tp.last_error = now]

error(w, retryable, now) ==
    IF error_fatal(w.tp.last_error, retryable, now)
    THEN emit_error(destroy_player(w), "InternalError")
    ELSE [w EXCEPT !.tp.last_error = now]

\* onerror (error, code, retryable); time is what getTime() reads from the engine
onerror_restart_from_zero(w, retryable, now, time) ==
    LET w1 == error(w, retryable, now)
    IN  IF error_fatal(w.tp.last_error, retryable, now) THEN w1
        ELSE start(create_player(w1, 0))

onerror(w, retryable, now, time) ==
    LET w1 == error(w, retryable, now)
    IN  IF error_fatal(w.tp.last_error, retryable, now) THEN w1
        ELSE LET w2 == IF w1.tp.track # "none"
                       THEN [w1 EXCEPT !.trk[w1.tp.track].streams = "undefined"]
                       ELSE w1
                 seekTime == IF w2.tp.player # 0 THEN time ELSE 0
             IN  start(create_player(w2, seekTime))

(***************************************************************************)
(* Inputs of the selection: stream objects as the repository builds them     *)
(* (property `codecs') and as the collaborator contract words them           *)
(* (property `codec').                                                       *)
(***************************************************************************)
Bitrates == {<<>>, <<96>>, <<128>>, <<720>>}

StreamShapes ==
    [video : BOOLEAN, audio : BOOLEAN, default_audio_track : BOOLEAN,
     codecs : {<<"opus">>, <<"aac">>}, codec : {<<>>}, bitrate : Bitrates]
    \cup
    [video : {FALSE}, audio : {TRUE}, default_audio_track : {FALSE},
     codecs : {<<>>}, codec : {<<"opus">>, <<"aac">>}, bitrate : Bitrates]
    \cup
    [video : {TRUE}, audio : BOOLEAN, default_audio_track : {FALSE},
     codecs : {<<>>}, codec : {<<>>}, bitrate : {<<720>>}]

(***************************************************************************)
(* Initial states                                                            *)
(***************************************************************************)
SelIdle == [streams |-> <<>>, called |-> FALSE, result |-> 0]

BufsInit == [AUDIO_BUFFER |-> WriteAt(Zeros(HEADER_LENGTH), 0, <<128, 120>>),
             CONNECTION_NONCE |-> Zeros(NONCE_LENGTH),
             AUDIO_NONCE |-> Zeros(NONCE_LENGTH),
             RANDOM_BYTES |-> Zeros(NONCE_LENGTH)]

Operations == {"set_state", "tick", "timeout", "await_settled", "onNetworkingError",
               "destroy", "await_connection", "connect", "onerror", "play", "subscribe",
               "unsubscribe",
               "setPaused", "seek", "stop", "setVolume", "setBitrate", "setRate", "setTempo",
               "setTremolo", "setEqualizer", "isPaused", "getTime", "getDuration",
               "getFramesDropped", "getTotalFrames", "getStreams", "getUrl", "loaded",
               "engine_start", "onpacket", "onfinish", "silence_tick"}

ObsInit == [last |-> [op |-> "none", s |-> 0, arg |-> "none", f |-> 0],
            idle |-> [op |-> "none", s |-> 0, arg |-> "none", f |-> 0],
            emitted |-> <<>>, sent_now |-> {}, thrown |-> "none", returned |-> <<>>,
            handed |-> [s \in Sessions |-> 0],
            udp |-> [s \in Sessions |-> NoDatagram],
            ka |-> NoKeepalive,
            fin |-> [active |-> FALSE, sent |-> 0],
            trace |-> Operations, engines |-> 0, live |-> {}, frames |-> 0, plays |-> 0, errs |-> 0,
            stale |-> {}, start |-> [s \in Sessions |-> 0],
            sess |-> [s \in Sessions |-> [op15 |-> 0, base_disconnects |-> 0,
                                          was_destroyed |-> FALSE,
                                          errors |-> <<>>, outcome |-> "none",
                                          callers |-> 0, observed |-> NoOutcome]]]

\* new TrackPlayer(options)
PlayerNew(ee, eps) ==
    [external_encrypt |-> ee, external_packet_send |-> eps, last_error |-> 0,
     track |-> "none", stream |-> StreamUndefined, subscriptions |-> <<>>,
     play_id |-> U32_ZERO, silence_frames_interval |-> FALSE, silence_frames_left |-> 0,
     silence_frames_needed |-> FALSE, player |-> 0]

\* a session whose first readiness wait resolved
SessionReady(s, cd) ==
    [status |-> Status.Ready, reason |-> Reason.None, promise |-> "null",
     promise_error |-> "none", timeout |-> FALSE, timers |-> 0, timer_left |-> 0,
     waited |-> 0, connected |-> TRUE, registered |-> TRUE, listeners |-> 0,
     speaking |-> FALSE, cd |-> cd]

TracksInit == [t \in Tracks |-> [streams |-> "undefined", url |-> "none", eager |-> FALSE]]

(***************************************************************************)
(* Actions                                                                   *)
(***************************************************************************)
Label(op, s, arg) == [op |-> op, s |-> s, arg |-> arg, f |-> 0]
LabelF(op, f) == [op |-> op, s |-> 0, arg |-> "none", f |-> f]

Faults == IF tp.external_encrypt THEN BOOLEAN ELSE {FALSE}

\* a settled readiness promise has its continuation queued as a microtask:
\* it runs before any timer or network event
Runnable(s) == vc[s].promise \in {"resolved", "rejected"}
MacrotaskMayRun == \A s \in Sessions : ~Runnable(s)

\* ---- stream selection on its own
SelectStream ==
    /\ ~sel.called
    /\ sel' = [sel EXCEPT !.called = TRUE, !.result = get_best_stream(sel.streams)]
    /\ UNCHANGED <<tp, eng, vc, trk, tasks, bufs, obs>>

\* ---- the session
\* the base class assigns this.state = {status, reason}
EnvSetState(s, st, reason) ==
    /\ MacrotaskMayRun
    /\ vc[s].status # Status.Destroyed
    /\ st # vc[s].status
    /\ st = Status.Ready => vc[s].status = Status.Connecting
    /\ (reason = Reason.None) = (st # Status.Disconnected)
    /\ \E f \in Faults :
         Commit(Did(set_state(WorldE([NoFault EXCEPT !.set_box_throws = f]), s, st, reason),
                    Label("set_state", s, st)))
    /\ UNCHANGED sel

\* time passes while the 15 s timer of s is scheduled
TimeStep == 5000
Tick(s) ==
    /\ MacrotaskMayRun
    /\ vc[s].timers > 0
    /\ vc[s].timer_left > 0
    /\ LET d == Min(TimeStep, vc[s].timer_left)
       IN  Commit(Did([World EXCEPT !.vc[s].timer_left = @ - d,
                                    !.vc[s].waited = @ + d],
                      Label("tick", s, "none")))
    /\ UNCHANGED sel

Timeout(s) ==
    /\ MacrotaskMayRun
    /\ vc[s].timers > 0
    /\ vc[s].timer_left = 0
    /\ Commit(Did(connection_timeout(World, s), Label("timeout", s, "none")))
    /\ UNCHANGED sel

AwaitSettled(s) ==
    /\ Runnable(s)
    /\ \E f \in Faults :
         Commit(Did(connect_settled(
                        await_connection_settled(WorldE([NoFault EXCEPT !.set_box_throws = f]), s),
                        s, vc[s].promise),
                    Label("await_settled", s, vc[s].promise)))
    /\ UNCHANGED sel

NetworkingError(s) ==
    /\ MacrotaskMayRun
    /\ vc[s].status # Status.Destroyed
    /\ \E f \in Faults :
         Commit(Did(onNetworkingError(WorldE([NoFault EXCEPT !.set_box_throws = f]), s),
                    Label("onNetworkingError", s, "none")))
    /\ UNCHANGED sel

\* connection.destroy() / connection.disconnect() called by the user
DestroySession(s) ==
    /\ \E f \in Faults :
         Commit(Did(VoiceConnection_disconnect(
                        WorldE([NoFault EXCEPT !.set_box_throws = f]), s),
                    Label("destroy", s, "none")))
    /\ UNCHANGED sel

\* connection.await_connection() called by connect()
AwaitConnection(s) ==
    /\ Commit(Did(await_connection(World, s), Label("await_connection", s, "none")))
    /\ UNCHANGED sel

\* VoiceConnection.connect(channel) called by the user; the session's slot is
\* given to a new connection only once the old one has nothing in flight
MaxCallers == 2          \* callers of connect() waiting on one session
Connect(s) ==
    /\ MacrotaskMayRun
    /\ obs.sess[s].callers < MaxCallers
    /\ vc[s].registered \/ (vc[s].promise = "null" /\ vc[s].timers = 0)
    /\ Commit(Did(connect(World, s), Label("connect", s, "none")))
    /\ UNCHANGED sel

\* ---- the Player's public operations
MaxPlays == 2            \* play() calls in one behaviour
Play(t) ==
    /\ obs.plays < MaxPlays
    /\ \E f \in Faults, cf \in BOOLEAN :
         Commit(Did([play(WorldE([NoFault EXCEPT !.set_box_throws = f, !.create_fails = cf]), t)
                       EXCEPT !.obs.plays = @ + 1],
                    Label("play", 0, t)))
    /\ UNCHANGED sel

Subscribe(c) ==
    /\ c \notin Range(tp.subscriptions) \/ tp.external_encrypt
    /\ \E f \in Faults :
         Commit(Did(subscribe(WorldE([NoFault EXCEPT !.set_box_throws = f]), c),
                    Label("subscribe", c, "none")))
    /\ UNCHANGED sel

Unsubscribe(c) ==
    /\ c \in Range(tp.subscriptions)
    /\ Commit(Did(unsubscribe(World, c), Label("unsubscribe", c, "none")))
    /\ UNCHANGED sel

\* unsubscribe() of a binding that was removed from the list before
UnsubscribeRemoved(c) ==
    /\ c \notin Range(tp.subscriptions)
    /\ Commit(Did(unsubscribe(World, c), Label("unsubscribe", c, "none")))
    /\ UNCHANGED sel

\* subscribe() of a session that has a binding already: a second binding
MaxSubscriptions == 3    \* bindings in the subscription list
Resubscribe(c) ==
    /\ c \in Range(tp.subscriptions)
    /\ ~tp.external_encrypt
    /\ Len(tp.subscriptions) < MaxSubscriptions
    /\ Commit(Did(subscribe(World, c), Label("subscribe", c, "none")))
    /\ UNCHANGED sel

Destroy ==
    /\ Commit(Did(TrackPlayer_destroy(World), Label("destroy", 0, "player")))
    /\ UNCHANGED sel

\* if (!this.player) throw new GenericError(...)
check_destroyed_silent(w) == w

check_destroyed(w) == IF w.tp.player = 0 THEN [w EXCEPT !.obs.thrown = "GenericError"] ELSE w

\* what a getter hands back to its caller
return(w, value) == [w EXCEPT !.obs.returned = <<value>>]

isPaused(w) ==
    IF w.tp.player = 0 THEN check_destroyed(w) ELSE return(w, w.eng.paused)

setVolume(w, volume) ==
    IF w.tp.player = 0 THEN check_destroyed(w) ELSE [w EXCEPT !.eng.settings.volume = volume]

setBitrate(w, bitrate) ==
    IF w.tp.player = 0 THEN check_destroyed(w) ELSE [w EXCEPT !.eng.settings.bitrate = bitrate]

setRate(w, rate) ==
    IF w.tp.player = 0 THEN check_destroyed(w) ELSE [w EXCEPT !.eng.settings.rate = rate]

setTempo(w, tempo) ==
    IF w.tp.player = 0 THEN check_destroyed(w) ELSE [w EXCEPT !.eng.settings.tempo = tempo]

setTremolo(w, depth, rate) ==
    IF w.tp.player = 0 THEN check_destroyed(w)
    ELSE [w EXCEPT !.eng.settings.tremolo = <<depth, rate>>]

setEqualizer(w, eqs) ==
    IF w.tp.player = 0 THEN check_destroyed(w) ELSE [w EXCEPT !.eng.settings.equalizer = eqs]

\* the four counters are read from the engine: engineValue is its answer
getTime(w, engineValue) ==
    IF w.tp.player = 0 THEN check_destroyed(w) ELSE return(w, engineValue)

getDuration(w, engineValue) ==
    IF w.tp.player = 0 THEN check_destroyed(w) ELSE return(w, engineValue)

getFramesDropped(w, engineValue) ==
    IF w.tp.player = 0 THEN check_destroyed(w) ELSE return(w, engineValue)

getTotalFrames(w, engineValue) ==
    IF w.tp.player = 0 THEN check_destroyed(w) ELSE return(w, engineValue)

setPaused(w, paused) ==
    IF w.tp.player = 0 THEN check_destroyed(w)
    ELSE LET w1 == IF paused THEN start_silence_frames(w) ELSE w
         IN  [w1 EXCEPT !.eng.paused = paused]

seek(w, time) ==
    IF w.tp.player = 0 THEN check_destroyed(w)
    ELSE [start_silence_frames(w) EXCEPT !.eng.seek = time, !.eng.finished = FALSE]

stop(w) ==
    IF w.tp.player = 0 THEN w
    ELSE [start_silence_frames(w) EXCEPT !.eng.finished = TRUE]

SetPaused(p) ==
    /\ \E f \in Faults :
         Commit(Did(setPaused(WorldE([NoFault EXCEPT !.get_box_throws = f]), p),
                    Label("setPaused", 0, IF p THEN "true" ELSE "false")))
    /\ UNCHANGED sel

Seek ==
    /\ \E f \in Faults :
         Commit(Did(seek(WorldE([NoFault EXCEPT !.get_box_throws = f]), 0),
                    Label("seek", 0, "none")))
    /\ UNCHANGED sel

Stop ==
    /\ \E f \in Faults :
         Commit(Did(stop(WorldE([NoFault EXCEPT !.get_box_throws = f])),
                    Label("stop", 0, "none")))
    /\ UNCHANGED sel

\* ---- the continuations of start() / load_streams()
\* what a continuation changed although its token was no longer current
StaleEffects(w0, w1, k) ==
    IF w0.tasks[k].playId = w0.tp.play_id THEN {}
    ELSE (IF \E i \in DOMAIN w1.obs.emitted : w1.obs.emitted[i][1] = "error"
          THEN {"error"} ELSE {})
         \cup (IF w1.tp.track # w0.tp.track THEN {"track"} ELSE {})
         \cup (IF w1.tp.stream # w0.tp.stream THEN {"stream"} ELSE {})
         \cup (IF \E t \in Tracks : w1.trk[t].url # w0.trk[t].url THEN {"stream.url"} ELSE {})
         \cup (IF \E t \in Tracks : w1.trk[t].streams # w0.trk[t].streams
               THEN {"streams"} ELSE {})
         \cup (IF w1.eng.setURL_calls # w0.eng.setURL_calls THEN {"setURL"} ELSE {})
         \cup (IF w1.eng.start_calls # w0.eng.start_calls THEN {"start"} ELSE {})

Resumed(w1, k, arg) ==
    Commit(Did([w1 EXCEPT !.obs.stale = @ \cup StaleEffects(World, w1, k)],
               Label(arg, k, IF tasks[k].playId = tp.play_id THEN "current" ELSE "stale")))

GetStreamsSettle(k, ok) ==
    /\ k \in DOMAIN tasks
    /\ tasks[k].pc = "getStreams"
    /\ Resumed(load_streams_got_streams(World, k, ok), k, "getStreams")
    /\ UNCHANGED sel

GetUrlSettle(k, ok) ==
    /\ k \in DOMAIN tasks
    /\ tasks[k].pc = "getUrl"
    /\ Resumed(load_streams_got_url(World, k, ok), k, "getUrl")
    /\ UNCHANGED sel

StartLoaded(k) ==
    /\ k \in DOMAIN tasks
    /\ tasks[k].pc = "loaded"
    /\ Resumed(start_loaded(World, k), k, "loaded")
    /\ UNCHANGED sel

EngineStartSettle(k, ok) ==
    /\ k \in DOMAIN tasks
    /\ tasks[k].pc = "engine_start"
    /\ Resumed(start_engine_started(World, k, ok), k, "engine_start")
    /\ UNCHANGED sel

\* ---- the decode engine's callbacks and the keepalive timer
MaxSends == 2            \* frames the decode engine delivers in one behaviour (send paths)
MaxFrames == 1           \* frames the decode engine delivers in one behaviour (keepalive)
Payloads == {<<7, 9>>}
FrameSizes == {960, 1920}

EngineRunning == tp.player # 0 /\ eng.start_calls > 0 /\ ~eng.finished

OnPacket(payload, frameSize) ==
    /\ EngineRunning
    /\ \E r \in RandomPool :
         Commit(Did([onpacket(WorldE([NoFault EXCEPT !.rnd = r]), payload, frameSize)
                       EXCEPT !.obs.frames = @ + 1],
                    LabelF("onpacket", frameSize)))
    /\ UNCHANGED sel

OnFinish ==
    /\ EngineRunning
    /\ \E f \in Faults :
         Commit(Did([onfinish(WorldE([NoFault EXCEPT !.get_box_throws = f]))
                       EXCEPT !.eng.finished = TRUE],
                    Label("onfinish", 0, "none")))
    /\ UNCHANGED sel

SilenceTick ==
    /\ tp.silence_frames_interval
    /\ \E f \in Faults, r \in RandomPool :
         Commit(Did(silence_tick(WorldE([NoFault EXCEPT !.update_box_throws = f, !.rnd = r])),
                    LabelF("silence_tick", SILENCE_FRAME_SIZE)))
    /\ UNCHANGED sel

\* the engine's onerror callback; Date.now() never runs backwards
MaxErrors == 2           \* errors the decode engine reports in one behaviour
Epoch == 1700000000
Times == {Epoch, Epoch + 1000, Epoch + ERROR_INTERVAL - 1, Epoch + ERROR_INTERVAL,
          Epoch + 2 * ERROR_INTERVAL}
Positions == {0, 42}
Retryable == {"true", "false", "undefined"}

OnError(retryable, now, time) ==
    /\ tp.player # 0
    /\ eng.start_calls > 0
    /\ obs.errs < MaxErrors
    /\ now >= tp.last_error
    /\ \E f \in Faults, g \in Faults, cf \in BOOLEAN :
         Commit(Did([onerror(WorldE([NoFault EXCEPT !.set_box_throws = f, !.get_box_throws = g,
                                                    !.create_fails = cf]),
                             retryable, now, time)
                       EXCEPT !.obs.errs = @ + 1],
                    [op |-> "onerror", s |-> time, arg |-> retryable, f |-> now]))
    /\ UNCHANGED sel

(***************************************************************************)
(* Specifications                                                            *)
(***************************************************************************)
IdleSessions == [s \in Sessions |-> SessionReady(s, DefaultData(s))]

\* ---- get_best_stream on every small collection
InitSelect ==
    /\ \E n \in 0..MaxStreams : \E shapes \in [1..n -> StreamShapes] :
         sel = [SelIdle EXCEPT !.streams = WithIds(shapes)]
    /\ tp = PlayerNew(FALSE, FALSE)
    /\ eng = NoEngine
    /\ vc = IdleSessions
    /\ trk = TracksInit
    /\ tasks = <<>>
    /\ bufs = BufsInit
    /\ obs = ObsInit

NextSelect == SelectStream

SpecSelect == InitSelect /\ [][NextSelect]_vars

\* ---- a session from its construction on
ConnSessions == {1}

InitConn ==
    /\ sel = SelIdle
    /\ tp = PlayerNew(FALSE, FALSE)
    /\ eng = NoEngine
    /\ vc = [s \in Sessions |-> IF s \in ConnSessions THEN SessionNew(s)
                                ELSE SessionReady(s, DefaultData(s))]
    /\ trk = TracksInit
    /\ tasks = <<>>
    /\ bufs = BufsInit
    /\ obs = ObsInit

Reasons == {Reason.None, Reason.WebSocketClose, Reason.AdapterUnavailable,
            Reason.EndpointRemoved, Reason.Manual}
Statuses == {Status.Signalling, Status.Connecting, Status.Ready, Status.Disconnected}

NextConn ==
    \E s \in ConnSessions :
        \/ \E st \in Statuses, reason \in Reasons : EnvSetState(s, st, reason)
        \/ Tick(s)
        \/ Timeout(s)
        \/ AwaitSettled(s)
        \/ NetworkingError(s)
        \/ DestroySession(s)
        \/ AwaitConnection(s)

SpecConn == InitConn /\ [][NextConn]_vars

\* ---- a session and the callers of connect()
NextConnect ==
    \E s \in ConnSessions :
        \/ \E st \in Statuses, reason \in Reasons : EnvSetState(s, st, reason)
        \/ Tick(s)
        \/ Timeout(s)
        \/ AwaitSettled(s)
        \/ NetworkingError(s)
        \/ DestroySession(s)
        \/ AwaitConnection(s)
        \/ Connect(s)

SpecConnect == InitConn /\ [][NextConnect]_vars

\* timers fire and queued continuations run
SpecConnFair ==
    /\ SpecConn
    /\ \A s \in ConnSessions :
         SF_vars(Tick(s)) /\ SF_vars(Timeout(s)) /\ WF_vars(AwaitSettled(s))

\* ---- send() on sessions whose counters sit near their wrap points
Playing(ee, eps, subs) ==
    [PlayerNew(ee, eps) EXCEPT !.track = "A", !.stream = StreamObject("A", 1),
                               !.subscriptions = subs, !.play_id = <<0, 1>>, !.player = 1]
EngineStarted == [NoEngine EXCEPT !.id = 1, !.url = "A", !.setURL_calls = 1, !.start_calls = 1]

SequenceStarts == {0, 65534, SEQUENCE_MAX}
TimestampStarts == {U32_ZERO, <<1, 65000>>, <<SEQUENCE_MAX, 64576>>, <<SEQUENCE_MAX, 65000>>,
                    U32_MAX}
NonceStarts == {U32_ZERO, <<0, SEQUENCE_MAX>>, <<SEQUENCE_MAX, 65534>>, U32_MAX}

InitCodec ==
    /\ sel = SelIdle
    /\ tp = Playing(FALSE, FALSE, <<1, 2>>)
    /\ eng = EngineStarted
    /\ \E m \in ModeStrings, q \in SequenceStarts, t \in TimestampStarts, n \in NonceStarts :
         /\ vc = [s \in Sessions |->
                    IF s = 1 THEN SessionReady(1, ConnectionData(1, m, q, t, n))
                    ELSE SessionReady(s, DefaultData(s))]
         /\ obs = [ObsInit EXCEPT !.engines = 1, !.start = [s \in Sessions |-> vc[s].cd.sequence]]
    /\ trk = [TracksInit EXCEPT !["A"] = [streams |-> "fresh", url |-> "A", eager |-> FALSE]]
    /\ tasks = <<>>
    /\ bufs = BufsInit

NextCodec ==
    \/ /\ obs.frames < MaxSends
       /\ \E payload \in Payloads, f \in FrameSizes : OnPacket(payload, f)
    \/ OnFinish
    \/ SilenceTick

SpecCodec == InitCodec /\ [][NextCodec]_vars

\* ---- a run of 65536 sends
SequenceRun == SEQUENCE_MAX + 1
RunStarts == {0, 40000}

InitSeq ==
    /\ sel = SelIdle
    /\ tp = Playing(FALSE, FALSE, <<1>>)
    /\ eng = EngineStarted
    /\ \E q \in RunStarts, m \in ModeStrings :
         /\ vc = [s \in Sessions |->
                    IF s = 1
                    THEN SessionReady(1, ConnectionData(1, m, q,
                                                        U32_ZERO, U32_ZERO))
                    ELSE SessionReady(s, DefaultData(s))]
         /\ obs = [ObsInit EXCEPT !.engines = 1, !.start = [s \in Sessions |-> vc[s].cd.sequence]]
    /\ trk = [TracksInit EXCEPT !["A"] = [streams |-> "fresh", url |-> "A", eager |-> FALSE]]
    /\ tasks = <<>>
    /\ bufs = BufsInit

NextSeq ==
    /\ obs.frames < SequenceRun
    /\ \E payload \in Payloads : OnPacket(payload, SILENCE_FRAME_SIZE)

SpecSeq == InitSeq /\ [][NextSeq]_vars

\* the variables hold the world w
Holds(w) ==
    /\ tp = w.tp
    /\ eng = w.eng
    /\ vc = w.vc
    /\ trk = w.trk
    /\ tasks = w.tasks
    /\ bufs = w.bufs
    /\ obs = w.obs

\* a Player constructed with the given options, nothing subscribed, nothing played
Constructed(ee, eps, eager) ==
    [tp |-> PlayerNew(ee, eps), eng |-> NoEngine, vc |-> IdleSessions,
     trk |-> [TracksInit EXCEPT !["B"].eager = eager], tasks |-> <<>>, bufs |-> BufsInit,
     obs |-> ObsInit, env |-> NoFault]

\* ---- play() and the continuations of start()
InitPlay ==
    /\ sel = SelIdle
    /\ \E ee \in BOOLEAN, eager \in BOOLEAN :
         Holds([subscribe(Constructed(ee, FALSE, eager), 1) EXCEPT !.obs.trace = {}])

NextPlay ==
    \/ \E t \in Tracks : Play(t)
    \/ \E k \in 1..MaxPlays, ok \in BOOLEAN : GetStreamsSettle(k, ok)
    \/ \E k \in 1..MaxPlays, ok \in BOOLEAN : GetUrlSettle(k, ok)
    \/ \E k \in 1..MaxPlays : StartLoaded(k)
    \/ \E k \in 1..MaxPlays, ok \in BOOLEAN : EngineStartSettle(k, ok)

SpecPlay == InitPlay /\ [][NextPlay]_vars

\* ---- subscriptions
InitSubscribe ==
    /\ sel = SelIdle
    /\ \E ee \in BOOLEAN, eps \in BOOLEAN :
         Holds([Constructed(ee, eps, FALSE) EXCEPT !.obs.trace = {"subscribe"}])

NextSubscribe ==
    \/ \E c \in Sessions : Subscribe(c)
    \/ \E c \in Sessions : Unsubscribe(c)
    \/ Play("A")
    \/ Destroy
    \/ \E s \in Sessions, st \in {Status.Connecting, Status.Ready, Status.Disconnected} :
          EnvSetState(s, st, IF st = Status.Disconnected THEN Reason.WebSocketClose
                             ELSE Reason.None)
    \/ \E s \in Sessions : AwaitSettled(s)

SpecSubscribe == InitSubscribe /\ [][NextSubscribe]_vars

\* ---- the keepalive of a Player that is playing
\* the Player after subscribe(1), play("A") and the engine's start
\* the Player w, subscribed to session 1, after play("A") and its start()
StartedFrom(w) ==
    LET w0 == play(subscribe(w, 1), "A")
        w1 == load_streams_got_streams(w0, 1, TRUE)
        w2 == load_streams_got_url(w1, 1, TRUE)
        w3 == start_loaded(w2, 1)
    IN  start_engine_started(w3, 1, TRUE)

Started(ee, eps) ==
    LET w0 == play(subscribe(Constructed(ee, eps, FALSE), 1), "A")
        w1 == load_streams_got_streams(w0, 1, TRUE)
        w2 == load_streams_got_url(w1, 1, TRUE)
        w3 == start_loaded(w2, 1)
    IN  start_engine_started(w3, 1, TRUE)

InitKeepalive ==
    /\ sel = SelIdle
    /\ \E ee \in BOOLEAN :
         Holds([Started(ee, FALSE) EXCEPT !.obs = [ObsInit EXCEPT !.trace = {}, !.engines = 1,
                                                                 !.plays = 1]])

NextKeepalive ==
    \/ /\ obs.frames < MaxFrames
       /\ \E payload \in Payloads : OnPacket(payload, SILENCE_FRAME_SIZE)
    \/ OnFinish
    \/ SilenceTick
    \/ \E p \in BOOLEAN : SetPaused(p)
    \/ Seek
    \/ Stop
    \/ Destroy
    \/ \E c \in Sessions : Unsubscribe(c)
    \/ \E st \in {Status.Connecting, Status.Ready, Status.Disconnected} :
          EnvSetState(1, st, IF st = Status.Disconnected THEN Reason.WebSocketClose
                             ELSE Reason.None)
    \/ AwaitSettled(1)

SpecKeepalive == InitKeepalive /\ [][NextKeepalive]_vars

\* ---- errors reported by the engine of a Player that is playing
InitError ==
    /\ sel = SelIdle
    /\ \E ee \in BOOLEAN :
         Holds([Started(ee, FALSE) EXCEPT !.obs = [ObsInit EXCEPT !.trace = {"onerror"},
                                                                 !.engines = 1, !.plays = 1]])

NextError ==
    \/ \E retryable \in Retryable, now \in Times, time \in Positions :
          OnError(retryable, now, time)
    \/ Play("A")
    \/ \E k \in DOMAIN tasks, ok \in BOOLEAN : GetStreamsSettle(k, ok)
    \/ \E k \in DOMAIN tasks, ok \in BOOLEAN : GetUrlSettle(k, ok)
    \/ \E k \in DOMAIN tasks : StartLoaded(k)
    \/ \E k \in DOMAIN tasks, ok \in BOOLEAN : EngineStartSettle(k, ok)

SpecError == InitError /\ [][NextError]_vars

\* ---- sends while the subscribed sessions come and go
InitGate ==
    /\ sel = SelIdle
    /\ \E ee \in BOOLEAN :
         Holds([(IF ee THEN Started(TRUE, FALSE) ELSE subscribe(Started(FALSE, FALSE), 2))
                   EXCEPT !.obs = [ObsInit EXCEPT !.trace = {"onpacket", "silence_tick", "onfinish"},
                                                  !.engines = 1, !.plays = 1]])

\* the session whose state changes: the one subscribed last
GateSession == tp.subscriptions[Len(tp.subscriptions)]

NextGate ==
    \/ /\ obs.frames < MaxFrames
       /\ \E payload \in Payloads : OnPacket(payload, SILENCE_FRAME_SIZE)
    \/ OnFinish
    \/ SilenceTick
    \/ \E s \in {GateSession} :
          \/ \E st \in {Status.Connecting, Status.Ready, Status.Disconnected} :
                EnvSetState(s, st, IF st = Status.Disconnected THEN Reason.WebSocketClose
                                   ELSE Reason.None)
          \/ AwaitSettled(s)
          \/ DestroySession(s)

SpecGate == InitGate /\ [][NextGate]_vars

\* ---- bindings removed from a Player that is playing
InitUnsubscribe ==
    /\ sel = SelIdle
    /\ \E ee \in BOOLEAN :
         Holds([Started(ee, FALSE) EXCEPT !.obs = [ObsInit EXCEPT !.trace = {"unsubscribe"},
                                                                 !.engines = 1, !.plays = 1]])

NextUnsubscribe ==
    \/ \E c \in Sessions : Unsubscribe(c)
    \/ \E c \in Sessions : UnsubscribeRemoved(c)
    \/ \E c \in Sessions : Subscribe(c)
    \/ \E c \in Sessions : Resubscribe(c)
    \/ /\ obs.frames < MaxFrames
       /\ \E payload \in Payloads : OnPacket(payload, SILENCE_FRAME_SIZE)
    \/ OnFinish
    \/ SilenceTick

SpecUnsubscribe == InitUnsubscribe /\ [][NextUnsubscribe]_vars

\* ---- the controls, with and without a decode engine
Levels == {2}
Equalizers == {<<>>, <<[band |-> 0, gain |-> 2]>>}

SetVolume(volume) ==
    /\ Commit(Did(setVolume(World, volume), Label("setVolume", volume, "none")))
    /\ UNCHANGED sel

SetBitrate(bitrate) ==
    /\ Commit(Did(setBitrate(World, bitrate), Label("setBitrate", bitrate, "none")))
    /\ UNCHANGED sel

SetRate(rate) ==
    /\ Commit(Did(setRate(World, rate), Label("setRate", rate, "none")))
    /\ UNCHANGED sel

SetTempo(tempo) ==
    /\ Commit(Did(setTempo(World, tempo), Label("setTempo", tempo, "none")))
    /\ UNCHANGED sel

SetTremolo(depth, rate) ==
    /\ Commit(Did(setTremolo(World, depth, rate), Label("setTremolo", depth, "none")))
    /\ UNCHANGED sel

SetEqualizer(eqs) ==
    /\ Commit(Did(setEqualizer(World, eqs), Label("setEqualizer", Len(eqs), "none")))
    /\ UNCHANGED sel

IsPaused ==
    /\ Commit(Did(isPaused(World), Label("isPaused", 0, "none")))
    /\ UNCHANGED sel

GetTime(engineValue) ==
    /\ Commit(Did(getTime(World, engineValue), Label("getTime", 0, "none")))
    /\ UNCHANGED sel

GetDuration(engineValue) ==
    /\ Commit(Did(getDuration(World, engineValue), Label("getDuration", 0, "none")))
    /\ UNCHANGED sel

GetFramesDropped(engineValue) ==
    /\ Commit(Did(getFramesDropped(World, engineValue), Label("getFramesDropped", 0, "none")))
    /\ UNCHANGED sel

GetTotalFrames(engineValue) ==
    /\ Commit(Did(getTotalFrames(World, engineValue), Label("getTotalFrames", 0, "none")))
    /\ UNCHANGED sel

ControlOps == {"setPaused", "seek", "setVolume", "setBitrate", "setRate", "setTempo",
               "setTremolo", "setEqualizer", "isPaused", "getTime", "getDuration",
               "getFramesDropped", "getTotalFrames"}

InitControls ==
    /\ sel = SelIdle
    /\ \E ee \in BOOLEAN, started \in BOOLEAN :
         Holds([(IF started THEN Started(ee, FALSE)
                 ELSE subscribe(Constructed(ee, FALSE, FALSE), 1))
                   EXCEPT !.obs = [ObsInit EXCEPT !.trace = ControlOps,
                                                  !.engines = IF started THEN 1 ELSE 0,
                                                  !.plays = IF started THEN 1 ELSE 0]])

NextControls ==
    \/ \E p \in BOOLEAN : SetPaused(p)
    \/ Seek
    \/ \E volume \in Levels : SetVolume(volume)
    \/ \E bitrate \in Levels : SetBitrate(bitrate)
    \/ \E rate \in Levels : SetRate(rate)
    \/ \E tempo \in Levels : SetTempo(tempo)
    \/ \E depth \in Levels : SetTremolo(depth, 1)
    \/ \E eqs \in Equalizers : SetEqualizer(eqs)
    \/ IsPaused
    \/ GetTime(42)
    \/ GetDuration(42)
    \/ GetFramesDropped(42)
    \/ GetTotalFrames(42)
    \/ /\ obs.frames < MaxFrames
       /\ \E payload \in Payloads : OnPacket(payload, SILENCE_FRAME_SIZE)
    \/ SilenceTick
    \/ Destroy
    \/ OnError("false", Epoch, 0)

SpecControls == InitControls /\ [][NextControls]_vars

\* ---- the decode engines a Player creates and destroys
MaxEngines == 2          \* decode engines created in one behaviour
InitEngines ==
    /\ sel = SelIdle
    /\ \E ee \in BOOLEAN :
         Holds([subscribe(Constructed(ee, FALSE, FALSE), 1)
                   EXCEPT !.obs.trace = {"play", "onerror", "destroy"}])

NextEngines ==
    \/ obs.engines < MaxEngines /\ Play("A")
    \/ \E k \in DOMAIN tasks, ok \in BOOLEAN : GetStreamsSettle(k, ok)
    \/ \E k \in DOMAIN tasks, ok \in BOOLEAN : GetUrlSettle(k, ok)
    \/ \E k \in DOMAIN tasks : StartLoaded(k)
    \/ \E k \in DOMAIN tasks, ok \in BOOLEAN : EngineStartSettle(k, ok)
    \/ obs.engines < MaxEngines /\ \E retryable \in Retryable : OnError(retryable, Epoch, 42)
    \/ /\ obs.frames < MaxFrames
       /\ \E payload \in Payloads : OnPacket(payload, SILENCE_FRAME_SIZE)
    \/ Destroy

SpecEngines == InitEngines /\ [][NextEngines]_vars

\* ---- the datagrams one session's transport is handed
InitWire ==
    /\ sel = SelIdle
    /\ \E ee \in BOOLEAN, sequence \in {0, SEQUENCE_MAX} :
         Holds([Started(ee, FALSE) EXCEPT
                   !.vc[1].cd.sequence = sequence,
                   !.eng.box.sequence = IF ee THEN sequence ELSE @,
                   !.obs = [ObsInit EXCEPT !.trace = {"onpacket", "silence_tick"},
                                           !.engines = 1, !.plays = 1, !.live = {1}]])

NextWire ==
    \/ /\ obs.frames < MaxSends
       /\ \E payload \in Payloads : OnPacket(payload, SILENCE_FRAME_SIZE)
    \/ SilenceTick
    \/ \E p \in BOOLEAN : SetPaused(p)
    \/ Seek
    \/ OnFinish
    \/ \E st \in {Status.Connecting, Status.Ready} : EnvSetState(1, st, Reason.None)

SpecWire == InitWire /\ [][NextWire]_vars

\* ---- sessions whose encryption mode string the code does not name
UnknownModes == {"aead_aes256_gcm_rtpsize", ""}

InitMode ==
    /\ sel = SelIdle
    /\ \E ee \in BOOLEAN, m \in ModeStrings \cup UnknownModes :
         LET w0 == Constructed(ee, FALSE, FALSE)
         IN  Holds([StartedFrom([w0 EXCEPT !.vc[1].cd.encryptionMode = m])
                       EXCEPT !.obs = [ObsInit EXCEPT
                                          !.trace = {"onpacket", "silence_tick", "set_state"},
                                          !.engines = 1, !.plays = 1, !.live = {1}]])

NextMode ==
    \/ /\ obs.frames < MaxFrames
       /\ \E payload \in Payloads : OnPacket(payload, SILENCE_FRAME_SIZE)
    \/ SilenceTick
    \/ SetPaused(TRUE)
    \/ \E st \in {Status.Connecting, Status.Ready} : EnvSetState(1, st, Reason.None)

SpecMode == InitMode /\ [][NextMode]_vars

\* ---- frames and the keepalive countdown
InitFrame ==
    /\ sel = SelIdle
    /\ \E ee \in BOOLEAN :
         Holds([Started(ee, FALSE) EXCEPT
                   !.obs = [ObsInit EXCEPT !.trace = {"onpacket"},
                                           !.engines = 1, !.plays = 1, !.live = {1}]])

NextFrame ==
    \/ /\ obs.frames < MaxSends
       /\ \E payload \in Payloads : OnPacket(payload, SILENCE_FRAME_SIZE)
    \/ SilenceTick
    \/ \E p \in BOOLEAN : SetPaused(p)
    \/ Seek
    \/ OnFinish

SpecFrame == InitFrame /\ [][NextFrame]_vars

\* ---- one frame, every bound session
InitBroadcast ==
    /\ sel = SelIdle
    /\ \E ee \in BOOLEAN, eps \in BOOLEAN :
         Holds([Started(ee, eps) EXCEPT
                   !.obs = [ObsInit EXCEPT !.trace = {"onpacket"},
                                           !.engines = 1, !.plays = 1, !.live = {1}]])

NextBroadcast ==
    \/ /\ obs.frames < MaxFrames
       /\ \E payload \in Payloads : OnPacket(payload, SILENCE_FRAME_SIZE)
    \/ \E c \in Sessions : Subscribe(c)
    \/ \E c \in Sessions : Resubscribe(c)
    \/ \E s \in Sessions, st \in {Status.Connecting, Status.Ready} :
          EnvSetState(s, st, Reason.None)

SpecBroadcast == InitBroadcast /\ [][NextBroadcast]_vars

\* ---- a session that leaves and regains Ready under a Player that is playing
InitReady ==
    /\ sel = SelIdle
    /\ \E ee \in BOOLEAN, eps \in BOOLEAN :
         Holds([Started(ee, eps) EXCEPT
                   !.obs = [ObsInit EXCEPT !.trace = {"set_state", "subscribe", "unsubscribe"},
                                           !.engines = 1, !.plays = 1, !.live = {1}]])

NextReady ==
    \/ \E st \in {Status.Connecting, Status.Ready} : EnvSetState(1, st, Reason.None)
    \/ \E c \in Sessions : Subscribe(c)
    \/ \E c \in Sessions : Unsubscribe(c)
    \/ /\ obs.frames < MaxFrames
       /\ \E payload \in Payloads : OnPacket(payload, SILENCE_FRAME_SIZE)
    \/ obs.engines < MaxEngines /\ Play("A")
    \/ \E k \in DOMAIN tasks : StartLoaded(k)
    \/ \E k \in DOMAIN tasks : EngineStartSettle(k, TRUE)

SpecReady == InitReady /\ [][NextReady]_vars

\* ---- the play token, from its first value and from values next to its last,
\* track A handed to play() with or without its streams loaded
PlayIdStarts == {U32_ZERO, <<SEQUENCE_MAX, 65534>>, U32_MAX}

InitToken ==
    /\ sel = SelIdle
    /\ \E cached \in BOOLEAN, id \in PlayIdStarts :
         Holds([subscribe(Constructed(FALSE, FALSE, FALSE), 1)
                   EXCEPT !.tp.play_id = id,
                          !.trk["A"] = IF cached
                                       THEN [streams |-> "fresh", url |-> "A", eager |-> FALSE]
                                       ELSE @,
                          !.obs.trace = {"play", "loaded", "engine_start"}])

NextToken ==
    \/ \E t \in Tracks : Play(t)
    \/ \E k \in DOMAIN tasks, ok \in BOOLEAN : GetStreamsSettle(k, ok)
    \/ \E k \in DOMAIN tasks, ok \in BOOLEAN : GetUrlSettle(k, ok)
    \/ \E k \in DOMAIN tasks : StartLoaded(k)
    \/ \E k \in DOMAIN tasks, ok \in BOOLEAN : EngineStartSettle(k, ok)
    \/ obs.engines < MaxEngines /\ \E retryable \in Retryable : OnError(retryable, Epoch, 42)

SpecToken == InitToken /\ [][NextToken]_vars

\* ---- the teardown of a Player that is playing
InitTeardown ==
    /\ sel = SelIdle
    /\ \E ee \in BOOLEAN :
         Holds([Started(ee, FALSE) EXCEPT
                   !.obs = [ObsInit EXCEPT !.trace = {"destroy", "unsubscribe", "silence_tick"},
                                           !.engines = 1, !.plays = 1]])

NextTeardown ==
    \/ Destroy
    \/ \E c \in Sessions : Unsubscribe(c)
    \/ /\ obs.frames < MaxFrames
       /\ \E payload \in Payloads : OnPacket(payload, SILENCE_FRAME_SIZE)
    \/ OnFinish
    \/ \E p \in BOOLEAN : SetPaused(p)
    \/ Stop
    \/ SilenceTick
    \/ \E retryable \in Retryable, time \in Positions : OnError(retryable, Epoch, time)

SpecTeardown == InitTeardown /\ [][NextTeardown]_vars

(***************************************************************************)
(* Properties                                                                *)
(***************************************************************************)
Subscribed == Range(tp.subscriptions)

\* C1: once a later play() has made another token current, no continuation of
\* the earlier play() emits an error, changes track / stream / stream.url /
\* the cached streams, or calls setURL / start on the decode engine.
C1_NoStaleEffect == obs.stale = {}

C3_TimestampModular ==
    [][\A s \in Sessions :
          (s \in obs'.sent_now /\ obs'.udp[s].kind = "rtp") =>
              vc'[s].cd.timestamp = add_wrap_mod(vc[s].cd.timestamp, obs'.last.f)]_vars

\* C4: every encrypted send adds 1 to the session's sequence modulo 65536; the
\* value stays in 0..65535 and is back at its start after 65536 sends.
C4_SequenceCounter ==
    \A s \in Subscribed :
        /\ vc[s].cd.sequence \in 0..SEQUENCE_MAX
        /\ vc[s].cd.sequence = (obs.start[s] + obs.frames) % (SEQUENCE_MAX + 1)
        /\ obs.frames = SequenceRun => vc[s].cd.sequence = obs.start[s]

C4_BackAfterFullRun ==
    /\ obs.frames = SequenceRun
    /\ obs.start[1] = 40000
    /\ vc[1].cd.sequence = 40000

\* C5: a LITE send adds 1 to the session nonce, 4294967295 wrapping to 0, and
\* the 4 bytes appended to the packet are the first 4 bytes, the big-endian
\* counter, of the 24-byte nonce buffer handed to the cipher for that packet.
C5_LiteNonce ==
    [][\A s \in Sessions :
          (s \in obs'.sent_now /\ obs'.udp[s].kind = "rtp"
             /\ vc'[s].cd.encryption_mode = EncryptionMode.LITE) =>
              /\ vc'[s].cd.nonce = IF vc[s].cd.nonce = U32_MAX THEN U32_ZERO
                                   ELSE add_wrap_mod(vc[s].cd.nonce, 1)
              /\ Len(obs'.udp[s].nonce) = NONCE_LENGTH
              /\ obs'.udp[s].suffix = SubSeq(obs'.udp[s].nonce, 1, 4)
              /\ obs'.udp[s].suffix = BytesBE32(vc'[s].cd.nonce)
              /\ obs'.udp[s].len = HEADER_LENGTH + Len(obs'.udp[s].payload) + MAC_LENGTH + 4]_vars

C5_NonceWrapped ==
    /\ 1 \in obs.sent_now
    /\ obs.udp[1].kind = "rtp"
    /\ vc[1].cd.encryption_mode = EncryptionMode.LITE
    /\ vc[1].cd.nonce = U32_ZERO
    /\ obs.udp[1].suffix = <<0, 0, 0, 0>>

AllVideo(streams) == streams # <<>> /\ \A i \in DOMAIN streams : streams[i].video

\* C6 as stated: a collection of only video entries with no audio-flagged
\* entry yields the video entry, not none.
C6_VideoOnlyReturned ==
    (sel.called /\ AllVideo(sel.streams) /\ \A i \in DOMAIN sel.streams : ~sel.streams[i].audio)
        => sel.result # 0

\* C6 amended: on a collection of only video entries get_best_stream returns a
\* video entry flagged audio if there is one, and none if no entry is flagged audio.
C6_VideoFallback ==
    (sel.called /\ AllVideo(sel.streams)) =>
        IF \E i \in DOMAIN sel.streams : sel.streams[i].audio
        THEN /\ sel.result \in DOMAIN sel.streams
             /\ sel.streams[sel.result].video
             /\ sel.streams[sel.result].audio
        ELSE sel.result = 0

C6_VideoWithAudioChosen ==
    /\ sel.called
    /\ AllVideo(sel.streams)
    /\ sel.result # 0
    /\ \E i \in DOMAIN sel.streams : ~sel.streams[i].audio

\* the entries get_best_stream chooses among: the audio-flagged entries marked
\* default_audio_track if there are any, else all audio-flagged entries
ChosenSet(streams) ==
    LET audio == {i \in DOMAIN streams : streams[i].audio}
        def == {i \in audio : streams[i].default_audio_track}
    IN  IF def # {} THEN def ELSE audio

C8_DualSubscription ==
    [][\A c \in Sessions :
          (tp.external_encrypt /\ Len(tp.subscriptions) > 0
             /\ obs'.last = Label("subscribe", c, "none")) =>
              /\ obs'.thrown = "UnsupportedError"
              /\ tp' = tp
              /\ vc' = vc
              /\ eng' = eng
              /\ tasks' = tasks
              /\ obs'.emitted = <<>>]_vars

C8_SecondSubscribeRefused ==
    /\ obs.last.op = "subscribe"
    /\ obs.last.s \in Sessions
    /\ obs.thrown = "UnsupportedError"
    /\ tp.external_encrypt
    /\ Len(tp.subscriptions) = 1
    /\ obs.last.s \notin Subscribed
    /\ tp.player # 0
    /\ eng.box.mode # EncryptionMode.NONE

\* C9: a readiness wait that is neither resolved nor rejected by a state change
\* ends 15000 ms after it started: the timer rejects it with the timeout error,
\* never earlier, and the continuation leaves the session Destroyed and out of
\* the guild registry; every pending wait is settled in the end.
C9_ReadinessTimeout ==
    /\ [](\A s \in ConnSessions :
            /\ (vc[s].promise = "rejected" /\ vc[s].promise_error = "Connection timed out")
                  => vc[s].waited = CONNECT_TIMEOUT
            /\ (vc[s].promise = "pending" /\ vc[s].waited = CONNECT_TIMEOUT)
                  => (vc[s].timeout /\ vc[s].timer_left = 0)
            /\ obs.sess[s].outcome = "Connection timed out"
                  => (vc[s].status = Status.Destroyed /\ ~vc[s].registered))
    /\ \A s \in ConnSessions : (vc[s].promise = "pending") ~> (vc[s].promise = "null")

C9_TimedOutAndDestroyed ==
    /\ obs.last = Label("await_settled", 1, "rejected")
    /\ obs.sess[1].outcome = "Connection timed out"
    /\ vc[1].status = Status.Destroyed
    /\ ~vc[1].registered
    /\ vc[1].waited = CONNECT_TIMEOUT

C11_RecoverableDisconnect ==
    [][\A s \in ConnSessions :
          (vc[s].promise = "null" /\ vc[s].status # Status.Destroyed
             /\ obs'.last = Label("set_state", s, Status.Disconnected)
             /\ vc'[s].reason = Reason.WebSocketClose) =>
              /\ vc'[s].status = Status.Disconnected
              /\ vc'[s].registered = vc[s].registered
              /\ vc'[s].promise = "pending"
              /\ vc'[s].timeout
              /\ vc'[s].timer_left = CONNECT_TIMEOUT]_vars

\* C12: a session with no pending readiness future that enters Disconnected
\* with reason AdapterUnavailable is Destroyed and out of the guild registry
\* when the assignment returns.
C12_UnrecoverableDisconnect ==
    [][\A s \in ConnSessions :
          (vc[s].promise = "null" /\ vc[s].status # Status.Destroyed
             /\ obs'.last = Label("set_state", s, Status.Disconnected)
             /\ vc'[s].reason = Reason.AdapterUnavailable) =>
              /\ vc'[s].status = Status.Destroyed
              /\ ~vc'[s].registered]_vars

\* C13: over any sequence of destroy() / disconnect() calls and internal
\* teardowns the base disconnect runs at most once for a session, and a
\* destroy() on a session already torn down changes nothing of the session.
C13_DestroyOnce ==
    /\ [](\A s \in ConnSessions : obs.sess[s].base_disconnects <= 1)
    /\ [][\A s \in ConnSessions :
            (~vc[s].registered /\ obs'.last = Label("destroy", s, "none")) =>
                vc'[s] = vc[s]]_vars

\* C14: every assignment that takes a session into Ready, with or without a
\* pending readiness future, sends op 15 exactly once and resolves the pending
\* future if there is one.
C14_ReadyAnnounces ==
    [][\A s \in ConnSessions :
          obs'.last = Label("set_state", s, Status.Ready) =>
              /\ obs'.sess[s].op15 = 1
              /\ vc[s].promise = "pending" => vc'[s].promise = "resolved"]_vars

\* C15: a session has at most one readiness future and one 15 s timer; an
\* await_connection() or connect() issued while a future is in flight leaves
\* the future and its timer as they are, every waiting caller of connect()
\* waits on that future, and all of them see its one outcome.
C15_SharedFuture ==
    /\ [](\A s \in ConnSessions :
            /\ vc[s].timers = (IF vc[s].timeout THEN 1 ELSE 0)
            /\ vc[s].timeout => vc[s].promise # "null"
            /\ obs.sess[s].callers > 0 => vc[s].promise # "null"
            /\ obs.sess[s].observed.callers > 0 =>
                  /\ obs.last = Label("await_settled", s, obs.sess[s].observed.promise)
                  /\ obs.sess[s].observed.promise \in {"resolved", "rejected"}
                  /\ obs.sess[s].callers = 0)
    /\ [][\A s \in ConnSessions :
            (vc[s].promise # "null" /\ obs'.last.op \in {"connect", "await_connection"}
               /\ obs'.last.s = s) =>
                /\ vc'[s] = vc[s]
                /\ obs'.sess[s].callers \in {obs.sess[s].callers, obs.sess[s].callers + 1}]_vars

C15_TwoCallersOneOutcome ==
    /\ obs.sess[1].observed.callers = MaxCallers
    /\ obs.sess[1].observed.promise = "rejected"
    /\ obs.last = Label("await_settled", 1, "rejected")
    /\ vc[1].promise = "null"
    /\ vc[1].timers = 0

InternalErrorEvent == <<"error", "InternalError">>

\* C16: onerror treats an error as fatal exactly when retryable is false or
\* less than ERROR_INTERVAL ms have passed since the recorded error time; a
\* fatal error leaves the recorded time alone, a transient one records the
\* current time.
C16_RetryClassification ==
    [][obs'.last.op = "onerror" =>
          LET retryable == obs'.last.arg
              now == obs'.last.f
              fatal == retryable = "false" \/ now - tp.last_error < ERROR_INTERVAL
          IN  IF fatal
              THEN /\ InternalErrorEvent \in Range(obs'.emitted)
                   /\ tp'.last_error = tp.last_error
                   /\ tp'.player = 0
              ELSE /\ InternalErrorEvent \notin Range(obs'.emitted)
                   /\ tp'.last_error = now]_vars

C16_SecondRetryableFatal ==
    /\ obs.last.op = "onerror"
    /\ obs.last.arg = "true"
    /\ obs.errs = 2
    /\ obs.plays = 1
    /\ tp.last_error = Epoch
    /\ obs.last.f = Epoch + ERROR_INTERVAL - 1
    /\ tp.player = 0
    /\ InternalErrorEvent \in Range(obs.emitted)

\* C17: a fatal error leaves the Player without an engine, creates no new
\* engine, starts nothing and emits exactly one error event.
C17_FatalOutcome ==
    [][(obs'.last.op = "onerror"
          /\ (obs'.last.arg = "false" \/ obs'.last.f - tp.last_error < ERROR_INTERVAL)) =>
              /\ tp'.player = 0
              /\ eng' = NoEngine
              /\ obs'.engines = obs.engines
              /\ tasks' = tasks
              /\ obs'.emitted = <<InternalErrorEvent>>]_vars

C17_EngineGoneOneEvent ==
    /\ obs.last.op = "onerror"
    /\ obs.last.arg = "false"
    /\ tp.player = 0
    /\ eng = NoEngine
    /\ obs.engines = 1
    /\ obs.emitted = <<InternalErrorEvent>>

\* C18: a transient error invalidates the track's cached streams, tears the
\* failed engine down, keeps the PlayToken and emits no error for itself; unless
\* the construction of the new engine fails, a new engine is current, seeked to
\* the position read from the failed one, and start() has been invoked.
C18_TransientOutcome ==
    [][(obs'.last.op = "onerror"
          /\ ~(obs'.last.arg = "false" \/ obs'.last.f - tp.last_error < ERROR_INTERVAL)) =>
              /\ tp'.play_id = tp.play_id
              /\ tp'.track = tp.track
              /\ trk'[tp.track].streams = "undefined"
              /\ InternalErrorEvent \notin Range(obs'.emitted)
              /\ tp'.player # tp.player
              /\ obs'.emitted = <<>> =>
                    /\ obs'.engines = obs.engines + 1
                    /\ tp'.player = obs'.engines
                    /\ eng'.id = tp'.player
                    /\ eng'.seek = obs'.last.s
                    /\ eng'.start_calls = 0
                    /\ Len(tasks') = Len(tasks) + 1
                    /\ tasks'[Len(tasks')] = [pc |-> "getStreams", playId |-> tp.play_id,
                                              track |-> tp.track, engine |-> tp'.player]]_vars

C18_RestartedAtPosition ==
    /\ obs.last.op = "onerror"
    /\ obs.last.arg = "true"
    /\ obs.last.s = 42
    /\ eng.seek = 42
    /\ tp.player = 2
    /\ obs.emitted = <<>>
    /\ tp.last_error = obs.last.f
    /\ trk["A"].streams = "undefined"

\* C19: a send of an audio or keepalive frame hands no datagram to a
\* subscribed session that is not Ready, leaves the counters of that session
\* as they are, and raises no error in the Player.
C19_ReadinessGate ==
    [][\A s \in Sessions :
          (obs'.last.op \in {"onpacket", "silence_tick", "onfinish"}
             /\ vc[s].status # Status.Ready) =>
              /\ s \notin obs'.sent_now
              /\ vc'[s] = vc[s]
              /\ obs'.udp[s] = obs.udp[s]
              /\ obs'.thrown = "none"
              /\ \A i \in DOMAIN obs'.emitted : obs'.emitted[i][1] # "error"]_vars

C19_SkippedWhileOtherSent ==
    /\ obs.last.op = "onpacket"
    /\ Subscribed = {1, 2}
    /\ vc[2].status = Status.Disconnected
    /\ vc[1].status = Status.Ready
    /\ obs.sent_now = {1}
    /\ vc[2].cd.sequence = 0
    /\ vc[1].cd.sequence > 0

\* C20: unsubscribe removes exactly the given binding and, under external
\* encryption, its stateChange listener; removing the last binding leaves the
\* Player without an engine and without an armed keepalive timer; while other
\* bindings remain nothing else of the Player, the engine or the sessions
\* changes; a binding that is not in the list changes nothing.
C20_Unsubscribe ==
    [][\A c \in Sessions :
          obs'.last = Label("unsubscribe", c, "none") =>
              LET subs == tp.subscriptions
              IN  IF c \notin Range(subs)
                  THEN tp' = tp /\ vc' = vc /\ eng' = eng /\ tasks' = tasks
                  ELSE /\ \E i \in DOMAIN subs :
                            /\ subs[i] = c
                            /\ tp'.subscriptions =
                                   SubSeq(subs, 1, i - 1) \o SubSeq(subs, i + 1, Len(subs))
                       /\ vc' = [vc EXCEPT ![c].listeners =
                                     IF tp.external_encrypt THEN @ - 1 ELSE @]
                       /\ IF Len(subs) = 1
                          THEN /\ tp'.player = 0
                               /\ eng' = NoEngine
                               /\ ~tp'.silence_frames_interval
                          ELSE /\ tp' = [tp EXCEPT !.subscriptions = tp'.subscriptions]
                               /\ eng' = eng
                               /\ tasks' = tasks]_vars

C20_LastBindingTearsDown ==
    /\ obs.last = Label("unsubscribe", 1, "none")
    /\ tp.subscriptions = <<>>
    /\ tp.external_encrypt
    /\ vc[1].listeners = 0
    /\ tp.player = 0
    /\ obs.engines = 1
    /\ obs.frames = 1
    /\ ~tp.silence_frames_interval

\* C21: once destroy() has completed, called directly or by the last
\* unsubscribe, no keepalive timer is armed, and no keepalive tick and no
\* datagram send follows.
C21_NoTimerAfterTeardown ==
    /\ [](tp.subscriptions = <<>> => (~tp.silence_frames_interval /\ tp.player = 0))
    /\ [][(obs'.last.op \in {"destroy", "unsubscribe"} /\ tp'.subscriptions = <<>>) =>
              (~tp'.silence_frames_interval /\ obs'.sent_now = {})]_vars
    /\ [][tp.subscriptions = <<>> =>
              (obs'.last.op # "silence_tick" /\ obs'.sent_now = {})]_vars

C21_ArmedByTeardownThenCleared ==
    /\ obs.last = Label("destroy", 0, "player")
    /\ tp.subscriptions = <<>>
    /\ tp.player = 0
    /\ obs.frames = 1
    /\ ~tp.silence_frames_needed
    /\ tp.silence_frames_left = SILENCE_FRAMES
    /\ ~tp.silence_frames_interval

\* C22: without a decode engine each of the thirteen controls throws the
\* "nothing was playing" error, returns nothing, and leaves the Player, the
\* sessions, the buffers and the keepalive as they were.
C22_ControlsNeedEngine ==
    [][(obs'.last.op \in ControlOps /\ tp.player = 0) =>
          (/\ obs'.thrown = "GenericError"
           /\ obs'.returned = <<>>
           /\ tp' = tp /\ eng' = eng /\ vc' = vc /\ trk' = trk
           /\ tasks' = tasks /\ bufs' = bufs
           /\ obs'.ka = obs.ka /\ obs'.udp = obs.udp
           /\ obs'.sent_now = {} /\ obs'.emitted = <<>>)]_vars

C22_PauseThrowsWhileCountdownRuns ==
    /\ obs.last.op = "setPaused"
    /\ obs.last.arg = "true"
    /\ obs.thrown = "GenericError"
    /\ tp.player = 0
    /\ tp.silence_frames_interval
    /\ tp.silence_frames_left < SILENCE_FRAMES

\* C23: at most one decode engine is live, it is the Player's current one, and
\* a step that creates an engine leaves only the new one live.
C23_SingleEngine ==
    /\ [](/\ Cardinality(obs.live) <= 1
          /\ obs.live = (IF tp.player = 0 THEN {} ELSE {tp.player})
          /\ (tp.player # 0 => eng.id = tp.player))
    /\ [][obs'.engines # obs.engines =>
              (obs'.live \subseteq {obs'.engines} /\ tp'.player \in {0, obs'.engines})]_vars

C23_RestartReplacedRunningEngine ==
    /\ obs.last.op = "onerror"
    /\ obs.last.arg = "true"
    /\ obs.engines = MaxEngines
    /\ obs.live = {MaxEngines}
    /\ tp.player = MaxEngines

\* C24: the datagrams one Player hands to a session's transport carry
\* consecutive sequence numbers modulo 65536: each one follows the one handed
\* over before it, with no duplicate and no gap.
C24_ConsecutiveSequence ==
    \A s \in Sessions :
        (obs.udp[s].seq # -1 /\ obs.udp[s].after # -1) =>
            obs.udp[s].seq = (obs.udp[s].after + 1) % Half

\* C25: for a session whose mode string is neither 'xsalsa20_poly1305_lite'
\* nor 'xsalsa20_poly1305_suffix', send() and init_secretbox() both select
\* DEFAULT and go on: nothing is thrown, no error event is emitted, the
\* datagram is sent in the DEFAULT layout and the engine's box is installed.
C25_UnknownModeIsDefault ==
    /\ [](LET m == vc[1].cd.encryptionMode
              s == send(World, SILENCE, SILENCE_FRAME_SIZE, TRUE)
              i == init_secretbox(World)
          IN  m \notin {"xsalsa20_poly1305_lite", "xsalsa20_poly1305_suffix"} =>
                /\ (vc[1].status = Status.Ready /\ tp.subscriptions = <<1>>) =>
                      (/\ s.obs.sent_now = {1}
                       /\ s.vc[1].cd.encryption_mode = EncryptionMode.DEFAULT
                       /\ s.obs.udp[1].suffix = <<>>
                       /\ s.obs.udp[1].nonce = s.obs.udp[1].hdr \o Zeros(NONCE_LENGTH - HEADER_LENGTH)
                       /\ s.obs.udp[1].len = HEADER_LENGTH + Len(SILENCE) + MAC_LENGTH
                       /\ s.obs.thrown = "none" /\ s.obs.emitted = <<>>)
                /\ (tp.external_encrypt /\ tp.player # 0 /\ secretbox_ready(World)) =>
                      (/\ i.eng.box.mode = EncryptionMode.DEFAULT
                       /\ i.tp.player = tp.player
                       /\ i.obs.thrown = "none" /\ i.obs.emitted = <<>>))
    /\ [][\A s \in Sessions :
              (/\ s \in obs'.sent_now /\ obs'.udp[s].kind = "rtp"
               /\ vc[s].cd.encryptionMode \notin {"xsalsa20_poly1305_lite",
                                                  "xsalsa20_poly1305_suffix"}) =>
                 (/\ vc'[s].cd.encryption_mode = EncryptionMode.DEFAULT
                  /\ obs'.udp[s].suffix = <<>>
                  /\ obs'.thrown = "none"
                  /\ \A j \in DOMAIN obs'.emitted : obs'.emitted[j][1] # "error")]_vars

C25_UnknownModeSent ==
    /\ vc[1].cd.encryptionMode \in UnknownModes
    /\ tp.external_encrypt
    /\ obs.last.op = "silence_tick"
    /\ obs.udp[1].kind = "rtp"
    /\ eng.box.mode = EncryptionMode.DEFAULT
    /\ vc[1].cd.encryption_mode = EncryptionMode.DEFAULT

C27_ConstantMarker ==
    /\ [](bufs.AUDIO_BUFFER[1] = 128 /\ bufs.AUDIO_BUFFER[2] = 120)
    /\ [][\A s \in Sessions :
              (s \in obs'.sent_now /\ obs'.udp[s].kind = "rtp") =>
                 (obs'.udp[s].hdr[1] = 128 /\ obs'.udp[s].hdr[2] = 120)]_vars

C27_MarkerAfterWrap ==
    /\ obs.frames = MaxSends
    /\ obs.sent_now = {1, 2}
    /\ vc[1].cd.sequence = 0
    /\ obs.udp[1].hdr = <<128, 120, 0, 0>> \o SubSeq(obs.udp[1].hdr, 5, 12)
    /\ obs.udp[2].hdr[1] = 128 /\ obs.udp[2].hdr[2] = 120

\* C28: a session whose status has once been stored as Destroyed has status
\* Destroyed whenever a handler returns, from then on.
C28_DestroyedIsTerminal ==
    \A s \in ConnSessions :
        obs.sess[s].was_destroyed => vc[s].status = Status.Destroyed

\* C29: get_best_stream returns an audio-flagged entry marked
\* default_audio_track whenever there is one, an audio-flagged entry when
\* none is marked, and none exactly when no entry is audio-flagged.
C29_DefaultTrackPreference ==
    sel.called =>
        LET audio == {i \in DOMAIN sel.streams : sel.streams[i].audio}
            def == {i \in audio : sel.streams[i].default_audio_track}
        IN  /\ def # {} => sel.result \in def
            /\ (def = {} /\ audio # {}) => sel.result \in audio
            /\ (sel.result = 0) <=> (audio = {})

C29_DefaultBeatsBetterStream ==
    /\ sel.called
    /\ sel.result # 0
    /\ sel.streams[sel.result].default_audio_track
    /\ sel.streams[sel.result].codecs = <<"aac">>
    /\ \E i \in DOMAIN sel.streams :
          /\ sel.streams[i].audio /\ ~sel.streams[i].video
          /\ ~sel.streams[i].default_audio_track
          /\ sel.streams[i].codecs = <<"opus">>
          /\ Nullish0(sel.streams[i].bitrate) > Nullish0(sel.streams[sel.result].bitrate)

\* the partition get_best_stream_one picks from, within the chosen set: the
\* non-video entries with codecs 'opus', else the other non-video entries,
\* else the video entries
WinningPartition(streams) ==
    LET chosen == ChosenSet(streams)
        opus == {i \in chosen : ~streams[i].video /\ streams[i].codecs = <<"opus">>}
        audio == {i \in chosen : ~streams[i].video /\ streams[i].codecs # <<"opus">>}
    IN  IF opus # {} THEN opus ELSE IF audio # {} THEN audio ELSE chosen

\* C30: the result is an entry of the winning partition, no entry of the
\* partition has a higher bitrate (undefined counting as 0), and no entry of
\* the same bitrate comes before it in the collection.
C30_BitrateChoice ==
    LET part == WinningPartition(sel.streams)
        rate(i) == Nullish0(sel.streams[i].bitrate)
    IN  (sel.called /\ part # {}) =>
            /\ sel.result \in part
            /\ \A i \in part : rate(i) <= rate(sel.result)
            /\ \A i \in part : rate(i) = rate(sel.result) => sel.result <= i

C30_FirstOfEqualBitrate ==
    /\ sel.called
    /\ sel.result = 1
    /\ 2 \in WinningPartition(sel.streams)
    /\ sel.streams[1].bitrate = <<128>>
    /\ sel.streams[2].bitrate = <<128>>

\* C31: after onpacket for a frame of an engine that is not paused, no
\* keepalive timer is armed, the countdown is back at 5 and a keepalive is
\* due at the next idle period.
C31_FrameCancelsKeepalive ==
    [][(obs'.last.op = "onpacket" /\ obs'.frames = obs.frames + 1 /\ ~eng.paused) =>
          (/\ ~tp'.silence_frames_interval
           /\ tp'.silence_frames_left = 5
           /\ tp'.silence_frames_needed)]_vars

\* C31 as stated: the same after every frame, paused or not.
C31_EveryFrameCancels ==
    [][(obs'.last.op = "onpacket" /\ obs'.frames = obs.frames + 1) =>
          (~tp'.silence_frames_interval /\ tp'.silence_frames_left = 5)]_vars

C31_FrameStoppedCountdown ==
    /\ obs.last.op = "onpacket"
    /\ obs.frames = 2
    /\ ~eng.paused
    /\ ~tp.silence_frames_interval
    /\ tp.silence_frames_left = 5
    /\ ~tp.external_encrypt
    /\ vc[1].cd.sequence = 3
    /\ obs.udp[1].silence = FALSE
    /\ obs.ka = NoKeepalive

\* C32: a decoded frame gives exactly one 'packet' event; without external
\* packet send it hands exactly one datagram to every subscribed session that
\* is Ready and none to any other session, with external packet send it
\* hands over no datagram.
C32_Broadcast ==
    [][(obs'.last.op = "onpacket" /\ obs'.frames = obs.frames + 1) =>
          /\ obs'.emitted = << <<"packet">> >>
          /\ \A s \in Sessions :
                obs'.handed[s] =
                    (IF /\ ~tp.external_packet_send
                        /\ s \in Range(tp.subscriptions)
                        /\ vc[s].status = Status.Ready
                     THEN 1 ELSE 0)]_vars


\* C33: the header of every datagram send() builds carries, at offsets 2, 4
\* and 8, the sequence and the timestamp the session holds after that send's
\* increment and the session's SSRC: from counters (q, t) and frame size f the
\* datagram carries q + 1 (65535 -> 0) and t + f (0 once past 4294967295), and
\* these are the values the session stores.
C33_IncrementBeforeSend ==
    [][\A s \in Sessions :
          (s \in obs'.sent_now /\ obs'.udp[s].kind = "rtp") =>
             /\ SubSeq(obs'.udp[s].hdr, 3, 4) = BytesBE16(vc'[s].cd.sequence)
             /\ SubSeq(obs'.udp[s].hdr, 5, 8) = BytesBE32(vc'[s].cd.timestamp)
             /\ SubSeq(obs'.udp[s].hdr, 9, 12) = BytesBE32(vc[s].cd.ssrc)
             /\ vc'[s].cd.ssrc = vc[s].cd.ssrc
             /\ vc'[s].cd.sequence = (vc[s].cd.sequence + 1) % (SEQUENCE_MAX + 1)
             /\ vc'[s].cd.timestamp =
                   IF Exceeds32(AddJS(vc[s].cd.timestamp, obs'.last.f)) THEN U32_ZERO
                   ELSE add_wrap_mod(vc[s].cd.timestamp, obs'.last.f)]_vars

C33_FirstPacketCarriesNext ==
    /\ obs.frames = 1
    /\ obs.last.op = "onpacket" /\ obs.last.f = 960
    /\ obs.sent_now = {1, 2}
    /\ obs.start[1] = 65534
    /\ vc[1].cd.sequence = SEQUENCE_MAX
    /\ vc[1].cd.timestamp = <<2, 424>>
    /\ SubSeq(obs.udp[1].hdr, 3, 4) = <<255, 255>>
    /\ SubSeq(obs.udp[1].hdr, 5, 8) = <<0, 2, 1, 168>>
    /\ SubSeq(obs.udp[1].hdr, 9, 12) = <<0, 1, 3, 233>>


\* the three counters of a session's connection data or of the engine's box
Counters(r) == <<r.sequence, r.timestamp, r.nonce>>

\* external encryption, an engine, and the first bound session Ready
SyncApplies == tp.external_encrypt /\ tp.player # 0 /\ secretbox_ready(World)

\* C34: under external encryption, with an engine and a Ready session, a
\* countdown that starts first copies the engine's box counters into the
\* session, and each keepalive tick copies the session's counters back into
\* the engine's box; when the first copy fails no timer is armed and no frame
\* is sent, when the second fails the timer is cancelled and no keepalive
\* frame follows in that countdown; neither failure throws.
C34_KeepaliveSync ==
    /\ [][(SyncApplies /\ tp.silence_frames_needed /\ ~tp.silence_frames_interval
             /\ ~tp'.silence_frames_needed) =>
            /\ obs'.thrown = "none"
            /\ \/ /\ tp'.silence_frames_interval
                  /\ Counters(vc'[tp.subscriptions[1]].cd) = Counters(eng.box)
               \/ /\ ~tp'.silence_frames_interval
                  /\ obs'.sent_now = {}
                  /\ Counters(vc'[tp.subscriptions[1]].cd) = Counters(vc[tp.subscriptions[1]].cd)]_vars
    /\ [][(SyncApplies /\ tp.silence_frames_interval /\ obs'.ka.sent = obs.ka.sent + 1) =>
            /\ obs'.thrown = "none"
            /\ tp.subscriptions[1] \in obs'.sent_now
            /\ obs'.udp[tp.subscriptions[1]].silence
            /\ \/ /\ Counters(eng'.box) = Counters(vc'[tp.subscriptions[1]].cd)
                  /\ tp'.silence_frames_interval = (tp'.silence_frames_left # 0)
               \/ /\ ~tp'.silence_frames_interval
                  /\ obs'.ka.by = "aborted"
                  /\ Counters(eng'.box) = Counters(eng.box)]_vars
    /\ [](obs.ka.by = "aborted" => ~tp.silence_frames_interval)
    /\ [][obs.ka.by = "aborted" =>
            \A s \in Sessions : ~(s \in obs'.sent_now /\ obs'.udp[s].silence)]_vars

C34_SecondTickAborted ==
    /\ SyncApplies
    /\ obs.ka = [by |-> "aborted", sent |-> 2]
    /\ ~tp.silence_frames_interval
    /\ tp.silence_frames_left = 3
    /\ 1 \in obs.sent_now /\ obs.udp[1].silence
    /\ vc[1].cd.sequence = eng.box.sequence + 1


\* the engine's box as init_secretbox installs it from the connection data cd
BoxOf(cd) == [mode |-> mode_of(cd.encryptionMode), ssrc |-> cd.ssrc,
              sequence |-> cd.sequence, timestamp |-> cd.timestamp, nonce |-> cd.nonce]

\* C35 as stated: whenever a subscribed session becomes Ready while the
\* Player has an engine, with or without external encryption, the engine's
\* box is installed from that session's mode, SSRC and counters.
C35_ReinitInEveryMode ==
    [][(obs'.last.op = "set_state" /\ obs'.last.arg = Status.Ready
          /\ obs'.last.s \in Range(tp.subscriptions) /\ tp.player # 0) =>
            \/ tp'.player = tp.player /\ eng'.box = BoxOf(vc'[obs'.last.s].cd)
            \/ tp'.player = 0 /\ obs'.emitted = << <<"error", "GenericError">> >>]_vars

\* C35: under external encryption, whenever the subscribed session becomes
\* Ready while the Player has an engine, the listener installs the engine's
\* box from that session's mode, SSRC and counters, or, when installing it
\* throws, destroys the engine and emits one error; a session that is not
\* subscribed carries no listener, and a change of its status leaves the
\* Player and the engine as they were.
C35_ReinitOnReady ==
    /\ [][(obs'.last.op = "set_state" /\ obs'.last.arg = Status.Ready
            /\ tp.external_encrypt
            /\ obs'.last.s \in Range(tp.subscriptions) /\ tp.player # 0) =>
              \/ tp'.player = tp.player /\ eng'.box = BoxOf(vc'[obs'.last.s].cd)
              \/ tp'.player = 0 /\ obs'.emitted = << <<"error", "GenericError">> >>]_vars
    /\ [](\A s \in Sessions :
            vc[s].listeners = IF tp.external_encrypt /\ s \in Range(tp.subscriptions)
                              THEN 1 ELSE 0)
    /\ [][(obs'.last.op = "set_state" /\ obs'.last.s \notin Range(tp.subscriptions)) =>
              (tp' = tp /\ eng' = eng /\ obs'.emitted = <<>>)]_vars

C35_BoxReinstalled ==
    /\ obs.last.op = "set_state" /\ obs.last.arg = Status.Ready /\ obs.last.s = 1
    /\ tp.external_encrypt
    /\ tp.player # 0
    /\ obs.frames = 1
    /\ eng.box = BoxOf(vc[1].cd)
    /\ eng.box.mode = EncryptionMode.LITE


\* C36 as stated: every play() leaves play_id at the previous value + 1, 0
\* after 4294967295, the last-error time at 0 and the selected stream unset.
C36_StreamUnsetAfterPlay ==
    [][obs'.plays = obs.plays + 1 =>
          /\ tp'.play_id = IF tp.play_id = U32_MAX THEN U32_ZERO
                           ELSE add_wrap_mod(tp.play_id, 1)
          /\ tp'.last_error = 0
          /\ tp'.stream = StreamUndefined]_vars

\* C36: play_id stays in 0..4294967295; every play() leaves it at the
\* previous value + 1, 0 after 4294967295, never at the previous value, and
\* leaves the last-error time at 0; the stream play() leaves is unset, or
\* the one selected for the new track from its cached streams (none when
\* no stream is playable), never one of the track played before; the new
\* engine has had neither setURL nor start called when play() returns.
C36_PlayToken ==
    /\ [](tp.play_id[1] \in 0..SEQUENCE_MAX /\ tp.play_id[2] \in 0..SEQUENCE_MAX)
    /\ [][obs'.plays = obs.plays + 1 =>
            /\ tp'.play_id = IF tp.play_id = U32_MAX THEN U32_ZERO
                             ELSE add_wrap_mod(tp.play_id, 1)
            /\ tp'.play_id # tp.play_id
            /\ tp'.last_error = 0
            /\ \/ tp'.stream = StreamUndefined
               \/ /\ trk[tp'.track].streams = "fresh"
                  /\ tp'.stream =
                        IF get_best_stream(TrackStreams(tp'.track)) = 0 THEN StreamNull
                        ELSE StreamObject(tp'.track, get_best_stream(TrackStreams(tp'.track)))
            /\ tp'.player # 0 => (eng'.setURL_calls = 0 /\ eng'.start_calls = 0)]_vars

C36_TokenWrapped ==
    /\ obs.last.op = "play"
    /\ obs.plays = 2
    /\ tp.play_id = U32_ZERO
    /\ tp.last_error = 0
    /\ obs.errs = 1
    /\ tp.stream.kind = "obj"
    /\ tp.player = 3


\* C37: on every decode engine setURL and start are called at most once, and
\* only by the start() that the play() or restart creating that engine began.
C37_OneStartPerEngine ==
    [][/\ eng'.setURL_calls <= 1
       /\ eng'.start_calls <= 1
       /\ (obs'.last.op = "loaded" /\ eng'.setURL_calls # eng.setURL_calls) =>
              tasks[obs'.last.s].engine = tp.player]_vars


\* C38: silence_frames_left stays in 0..5; while the keepalive timer is armed
\* it is at least 1, silence_frames_needed is false, and the ticks of the
\* countdown so far plus silence_frames_left make 5, so that the timer is
\* cancelled by its 5th tick at the latest.
C38_CountdownBounds ==
    /\ tp.silence_frames_left \in 0..SILENCE_FRAMES
    /\ tp.silence_frames_interval =>
          /\ tp.silence_frames_left >= 1
          /\ ~tp.silence_frames_needed
          /\ obs.ka.sent + tp.silence_frames_left = SILENCE_FRAMES

C38_LastTickPending ==
    /\ tp.silence_frames_interval
    /\ tp.silence_frames_left = 1
    /\ obs.ka.sent = 4
    /\ obs.frames = 1


\* external encryption with external packet send
PipeMode == tp.external_encrypt /\ tp.external_packet_send

\* the first bound session of the state a step leaves is not Ready, or none is bound
NotReadyAfter ==
    ~(Len(tp'.subscriptions) > 0 /\ vc'[tp'.subscriptions[1]].status = Status.Ready)

\* C39 as stated: in that mode an engine that pipes has the one subscribed
\* session Ready and pipes to it; and every state change, subscribe or engine
\* creation that finds the session not Ready leaves the engine not piping and
\* its box the NONE placeholder.
C39_BoxNoneWheneverNotReady ==
    [][(PipeMode /\ tp'.player # 0 /\ NotReadyAfter /\ obs'.thrown = "none"
          /\ \/ obs'.last.op = "set_state" /\ obs'.last.s \in Range(tp.subscriptions)
             \/ obs'.last.op = "subscribe"
             \/ obs'.engines # obs.engines) =>
            (eng'.pipe = 0 /\ eng'.box = NoBox)]_vars

\* C39: in that mode an engine that pipes has the one subscribed session
\* Ready and pipes to it; a state change of the subscribed session to a
\* status other than Ready leaves the engine not piping; a subscribe or an
\* engine creation that finds the session not Ready leaves the engine not
\* piping and its box the NONE placeholder.
C39_PipeOnlyWhileReady ==
    /\ []((PipeMode /\ eng.pipe # 0) =>
            /\ tp.player # 0
            /\ Len(tp.subscriptions) = 1
            /\ vc[tp.subscriptions[1]].status = Status.Ready
            /\ eng.pipe = tp.subscriptions[1])
    /\ [][(PipeMode /\ tp'.player # 0 /\ NotReadyAfter /\ obs'.thrown = "none") =>
            /\ (obs'.last.op = "set_state" /\ obs'.last.s \in Range(tp.subscriptions)) =>
                  eng'.pipe = 0
            /\ (obs'.last.op = "subscribe" \/ obs'.engines # obs.engines) =>
                  (eng'.pipe = 0 /\ eng'.box = NoBox)]_vars

C39_PipeStoppedBoxKept ==
    /\ PipeMode
    /\ obs.last.op = "set_state" /\ obs.last.s = 1 /\ obs.last.arg = Status.Connecting
    /\ tp.subscriptions = <<1>>
    /\ tp.player # 0
    /\ eng.pipe = 0
    /\ eng.box.mode = EncryptionMode.LITE


\* a frame under external encryption: every session's connection data as it
\* was, and the Ready subscribed session handed the engine's packet as it is
ForwardedAsIs ==
    (tp.external_encrypt /\ obs'.last.op = "onpacket" /\ obs'.frames = obs.frames + 1) =>
        \A s \in Sessions :
            /\ vc'[s].cd = vc[s].cd
            /\ (s \in Range(tp.subscriptions) /\ vc[s].status = Status.Ready) =>
                  /\ obs'.handed[s] = 1
                  /\ obs'.udp[s].kind = "raw"
                  /\ obs'.udp[s].payload \in Payloads
                  /\ obs'.udp[s].len = Len(obs'.udp[s].payload)

\* C40 as stated: under external encryption a frame is forwarded as it is
\* and leaves the session's sequence, timestamp, nonce and cached mode as
\* they were, and only a step that sends a keepalive frame changes a
\* session's counters.
C40_OnlyKeepaliveFramesAdvance ==
    [][/\ ForwardedAsIs
       /\ tp.external_encrypt =>
             \A s \in Sessions :
                 Counters(vc'[s].cd) # Counters(vc[s].cd) =>
                     (s \in obs'.sent_now /\ obs'.udp[s].silence)]_vars

\* C40: under external encryption a frame is forwarded as it is and leaves
\* the session's sequence, timestamp, nonce and cached mode as they were; a
\* session's counters change only in a step that sends it a keepalive frame,
\* built with the advanced counters, or in the step that arms the keepalive
\* timer, which sets them to the counters of the engine's box.
C40_ExternalFrameEffect ==
    [][/\ ForwardedAsIs
       /\ tp.external_encrypt =>
             \A s \in Sessions :
                 Counters(vc'[s].cd) # Counters(vc[s].cd) =>
                     \/ /\ s \in obs'.sent_now
                        /\ obs'.udp[s].silence
                        /\ obs'.udp[s].kind = "rtp"
                        /\ obs'.udp[s].seq = vc'[s].cd.sequence
                        /\ vc'[s].cd.sequence = (vc[s].cd.sequence + 1) % (SEQUENCE_MAX + 1)
                     \/ /\ ~tp.silence_frames_interval
                        /\ tp'.silence_frames_interval
                        /\ obs'.sent_now = {}
                        /\ Counters(vc'[s].cd) = Counters(eng.box)]_vars

C40_TwoFramesForwarded ==
    /\ tp.external_encrypt
    /\ obs.last.op = "onpacket"
    /\ obs.frames = 2
    /\ obs.udp[1].kind = "raw"
    /\ obs.udp[1].payload = <<7, 9>>
    /\ vc[1].cd.sequence = 0
    /\ vc[1].cd.encryption_mode = 0
    /\ eng.box.sequence = 2

====
